---- MODULE Spec2Model ----
(***************************************************************************)
(* State-machine model of gym-warehouse, class WarehouseContinuous         *)
(* (src/warehouse/continuous.py).                                          *)
(*                                                                         *)
(* Lengths are integers in units of 0.1 m (5.0 m is 50), so that every     *)
(* position the source writes down is an integer pair and the test         *)
(* "norm(p - q) < tol" is the exact test Dist2(p, q) < tol * tol.          *)
(* A velocity is the displacement it causes in one world.Step of           *)
(* 1 / FRAMES_PER_SECOND seconds, i.e. it is in m/s.                       *)
(* numpy arrays are functions on 0 .. n-1; a 2-vector is a pair <<x, y>>.  *)
(* The dictionaries keyed by str(i) are functions on the agent ids.        *)
(***************************************************************************)
EXTENDS Integers, Sequences, FiniteSets, TLC

\* ---------------------------------------------------------------- constants
AREA_DIMENSION_M == 80
BORDER_WIDTH_M == 10
WORLD_DIMENSION_M == AREA_DIMENSION_M + 2 * BORDER_WIDTH_M
AGENT_RADIUS == 4
PICKUP_RACKS_ARRANGEMENT == << 50 >>
NUM_AGENTS == 2
AGENT_INITIAL_POSITIONS ==
    << << 30, 30 >>, << WORLD_DIMENSION_M - 30, WORLD_DIMENSION_M - 30 >> >>
NUM_PICKUP_POINTS == 4 * Len(PICKUP_RACKS_ARRANGEMENT) * Len(PICKUP_RACKS_ARRANGEMENT)
NUM_REQUESTS == 2
PICKUP_REWARD == 1
DELIVERY_REWARD == 1
PICKUP_POSITION_TOLERANCE == 3
DELIVERY_POSITION_TOLERANCE == 3

\* ------------------------------------------------------------------- bounds
\* The source has 16 delivery points, 800 ticks per episode and 400 ticks of
\* pickup wait; the model keeps the code and scales these three numbers.  With
\* a wait of 3 a request can be claimed in the two ticks after its creation
\* and expires in the third.
NUM_DELIVERY_POINTS == 2
MAX_EPISODE_TIME == 2
MAX_PICKUP_WAIT_TIME == 3
\* step keeps counting after the episode ended: the model follows an
\* environment until its MaxSteps-th step, and no call is explored after it.
MaxSteps == 3

Agents == 0 .. NUM_AGENTS - 1
PickupPoints == 0 .. NUM_PICKUP_POINTS - 1
\* one delivery point more than NUM_DELIVERY_POINTS
DeliveryPoints_Wide == 0 .. NUM_DELIVERY_POINTS
DeliveryPoints == 0 .. NUM_DELIVERY_POINTS - 1

ZeroVec == << 0, 0 >>

\* The positions the agents are observed at and the velocities commanded:
\* agent 0 goes from its start to <<45, 43>>, within tolerance of pickup point
\* 0 at <<45, 45>>, and on in two ticks to delivery point 0 at <<35, 15>>;
\* agent 1 goes from its start in two ticks to <<46, 46>>, within tolerance of
\* pickup point 0 too.  No step is longer than the 2 m a body can move in one
\* world.Step.  step takes any velocity: it does not clip the action.
Locs ==
    { << 30, 30 >>, << 45, 43 >>, << 40, 29 >>, << 35, 15 >>,
      << 70, 70 >>, << 58, 58 >>, << 46, 46 >> }
Vels ==
    { ZeroVec, << 15, 13 >>, << -5, -14 >>, << -12, -12 >> }

VARIABLES
    episode_time,
    agent_bodies,
    agent_positions,
    agent_delivery_targets,
    delivery_point_positions,
    pickup_point_positions,
    pickup_point_targets,
    pickup_point_timers,
    observations,
    rewards,
    dones,
    locals,
    returned

\* ================================================================= legacy
\* class Warehouse of src/warehouse.py, the legacy environment.  Its lengths
\* are integers in units of 0.05 m (0.3 m is 6), so that the collision
\* distance 2 * 0.3 + 0.05 is the integer 13.  One world.Step is 1 / 20 s.
W_AREA_DIMENSION_M == 320
W_BORDER_WIDTH_M == 20
W_WORLD_DIMENSION_M == W_AREA_DIMENSION_M + 2 * W_BORDER_WIDTH_M
W_AGENT_RADIUS == 6
W_PICKUP_RACKS_ARRANGEMENT == << 100, 180, 260 >>
W_NUM_AGENTS == (Len(W_PICKUP_RACKS_ARRANGEMENT) + 1) * (Len(W_PICKUP_RACKS_ARRANGEMENT) + 1)
W_NUM_PICKUP_POINTS ==
    4 * Len(W_PICKUP_RACKS_ARRANGEMENT) * Len(W_PICKUP_RACKS_ARRANGEMENT)
W_NUM_DELIVERY_POINTS == 4 * (W_AREA_DIMENSION_M \div 20)
W_NUM_REQUESTS == 20
COLLISION_REWARD == -1
PICKUP_BASE_REWARD == 100
PICKUP_TIME_REWARD_MULTIPLIER == 10
W_MAX_PICKUP_WAIT_TIME == 400
AGENT_COLLISION_EPSILON == 1
PICKUP_POSITION_EPSILON == 100

W_Agents == 0 .. W_NUM_AGENTS - 1
W_PickupPoints == 0 .. W_NUM_PICKUP_POINTS - 1

\* Python's None
None == [ py |-> "None" ]

\* the state of a Warehouse instance, and what its last call returned
VARIABLES
    warehouse,
    warehouse_returned

\* the state of numpy's global generator np.random, and a WarehouseContinuous
\* instance that draws from it
VARIABLES
    np_random,
    instance

vars ==
    << episode_time, agent_bodies, agent_positions, agent_delivery_targets,
       delivery_point_positions, pickup_point_positions, pickup_point_targets,
       pickup_point_timers, observations, rewards, dones, locals, returned,
       warehouse, warehouse_returned, np_random, instance >>

\* ------------------------------------------------------------ numpy helpers
VecAdd(p, q) == << p[1] + q[1], p[2] + q[2] >>

Dist2(p, q) == (p[1] - q[1]) * (p[1] - q[1]) + (p[2] - q[2]) * (p[2] - q[2])

\* the comparison not strict: np.linalg.norm(p - q) <= tol
Within_Closed(p, q, tol) == Dist2(p, q) <= tol * tol

\* np.linalg.norm(p - q) < tol
Within(p, q, tol) == Dist2(p, q) < tol * tol

Size(arr) == Cardinality(DOMAIN arr)

\* A numpy array holds values, not a rule: the function f with its values
\* computed once, when the array is built.
np_array(f) == f @@ << >>

\* np.where(mask)[0]: the indices of the true entries, ascending
np_where(mask) ==
    LET n == Size(mask)
        sel == SelectSeq([k \in 1 .. n |-> k - 1], LAMBDA p : mask[p])
    IN  np_array([k \in 0 .. Len(sel) - 1 |-> sel[k + 1]])

\* arr[mask]
MaskSelect(arr, mask) ==
    LET idx == np_where(mask)
    IN  np_array([k \in DOMAIN idx |-> arr[idx[k]]])

\* np.delete(arr, i, axis=0)
np_delete(arr, i) ==
    np_array([k \in 0 .. Size(arr) - 2 |-> IF k < i THEN arr[k] ELSE arr[k + 1]])

\* np.argmax of a boolean row: the first true index, 0 when there is none
np_argmax(row) ==
    IF \E p \in DOMAIN row : row[p]
    THEN CHOOSE p \in DOMAIN row : row[p] /\ \A q \in DOMAIN row : row[q] => p <= q
    ELSE 0

\* RandomRequests drawing the delivery points with replacement
RandomRequests_Repeat(population, size) ==
    IF size < 0
    THEN {}
    ELSE UNION { [S -> DeliveryPoints] :
                 S \in { T \in SUBSET population : Cardinality(T) = size } }

\* np.random.choice(population, size, replace=False) followed by the pairing
\* with a second draw np.random.choice(NUM_DELIVERY_POINTS, size, replace=False):
\* the set of the possible maps  chosen pickup point -> drawn delivery point.
\* Empty when numpy raises ValueError (size < 0 or size > population).
RandomRequests(population, size) ==
    IF size < 0
    THEN {}
    ELSE UNION { { f \in [S -> DeliveryPoints] :
                     \A p, q \in S : p # q => f[p] # f[q] } :
                 S \in { T \in SUBSET population : Cardinality(T) = size } }

\* ------------------------------------------------------------------- layout
\* "Init pickup point positions"
PickupPointPositionsOf(racks) ==
    LET x == racks[1]
        y == racks[1]
    IN  np_array([p \in PickupPoints |->
            CASE p = 0 -> << x - 5, y - 5 >>
              [] p = 1 -> << x + 5, y - 5 >>
              [] p = 2 -> << x + 5, y + 5 >>
              [] OTHER -> << x - 5, y + 5 >>])

\* "Init delivery point positions": the d-th row the loop appends
DeliveryPointPositionOf(d) ==
    LET val == 10 * (2 + (d \div 4))
        side == d % 4
    IN  CASE side = 0 -> << BORDER_WIDTH_M + val + 5, BORDER_WIDTH_M + 5 >>
          [] side = 1 -> << BORDER_WIDTH_M + val + 5, WORLD_DIMENSION_M - BORDER_WIDTH_M - 5 >>
          [] side = 2 -> << BORDER_WIDTH_M + 5, BORDER_WIDTH_M + val + 5 >>
          [] OTHER -> << WORLD_DIMENSION_M - BORDER_WIDTH_M - 5, BORDER_WIDTH_M + val + 5 >>

\* -------------------------------------------------------------- observation
\* Observation reporting the zero vector as self_delivery_target
Observation_NoTarget(i, drop, positions, availabilities, target_positions, requests) ==
    [ self_position |-> positions[i],
      self_availability |-> np_array([k \in 0 .. 0 |-> availabilities[i]]),
      self_delivery_target |-> ZeroVec,
      other_positions |-> np_delete(positions, i),
      other_availabilities |-> np_delete(availabilities, i),
      other_delivery_targets |-> np_delete(target_positions, drop),
      requests |-> requests ]

\* The dictionary step and reset build for agent i from the arrays of the
\* tick; drop is the row np.delete removes from the delivery-target array.
Observation(i, drop, positions, availabilities, target_positions, requests) ==
    [ self_position |-> positions[i],
      self_availability |-> np_array([k \in 0 .. 0 |-> availabilities[i]]),
      self_delivery_target |-> target_positions[i],
      other_positions |-> np_delete(positions, i),
      other_availabilities |-> np_delete(availabilities, i),
      other_delivery_targets |-> np_delete(target_positions, drop),
      requests |-> requests ]

\* Requests taking a pickup point as Waiting when its target is > 0
Requests_Positive(ppos, dpos, ppt) ==
    LET waiting_pickup_points_mask == np_array([p \in DOMAIN ppt |-> ppt[p] > 0])
        pick == MaskSelect(ppos, waiting_pickup_points_mask)
        targ == MaskSelect(ppt, waiting_pickup_points_mask)
    IN  np_array([k \in DOMAIN pick |-> pick[k] \o dpos[targ[k]]])

\* requests = hstack(pickup positions[waiting], delivery positions[targets[waiting]])
Requests(ppos, dpos, ppt) ==
    LET waiting_pickup_points_mask == np_array([p \in DOMAIN ppt |-> ppt[p] > -1])
        pick == MaskSelect(ppos, waiting_pickup_points_mask)
        targ == MaskSelect(ppt, waiting_pickup_points_mask)
    IN  np_array([k \in DOMAIN pick |-> pick[k] \o dpos[targ[k]]])

\* "Compute observations" of reset
ResetObservations(positions, ppos, dpos, ppt) ==
    LET agent_availabilities == np_array([a \in Agents |-> 1])
        agent_delivery_target_positions == np_array([a \in Agents |-> ZeroVec])
        requests == Requests(ppos, dpos, ppt)
    IN  np_array([i \in Agents |->
            Observation(i, i, positions, agent_availabilities,
                        agent_delivery_target_positions, requests)])

\* "Compute observations" of step
StepObservations(positions, adt, ppos, dpos, ppt) ==
    LET agent_availabilities ==
            np_array([a \in Agents |-> IF adt[a] > -1 THEN 0 ELSE 1])
        agent_delivery_target_positions ==
            np_array([a \in Agents |-> IF adt[a] > -1 THEN dpos[adt[a]] ELSE ZeroVec])
        requests == Requests(ppos, dpos, ppt)
    IN  np_array([i \in Agents |->
            Observation(i, 1, positions, agent_availabilities,
                        agent_delivery_target_positions, requests)])

\* ------------------------------------------------------------------ physics
\* "Update agent velocities"
UpdateVelocities(bodies, action_dict) ==
    np_array([a \in DOMAIN bodies |->
        IF a \in DOMAIN action_dict
        THEN [bodies[a] EXCEPT !.linearVelocity = action_dict[a]]
        ELSE bodies[a]])

\* Two agent bodies touch: their circles of AGENT_RADIUS overlap.
InContact(bodies, a) ==
    \E b \in DOMAIN bodies :
        /\ b # a
        /\ Dist2(bodies[a].position, bodies[b].position)
               < (2 * AGENT_RADIUS) * (2 * AGENT_RADIUS)

\* world.Step: a body moves by its linearVelocity.  The engine looks for
\* contacts at the start of a step, so two bodies that were apart may overlap
\* after it.  Its response to bodies already in contact is not modelled: no
\* step is explored from such a state.  Ls bounds the positions explored.
world_Step(bodies, Ls) ==
    IF \E a \in DOMAIN bodies : InContact(bodies, a)
    THEN {}
    ELSE { nb \in { np_array([a \in DOMAIN bodies |->
                       [bodies[a] EXCEPT
                           !.position = VecAdd(@, bodies[a].linearVelocity)]]) } :
             \A a \in DOMAIN nb : nb[a].position \in Ls }

\* "Update agent positions"
BodyPositions(bodies) == np_array([a \in DOMAIN bodies |-> bodies[a].position])

\* ------------------------------------------------------------ request ledger
\* RemoveExpired letting a timer pass 0 and expiring it one tick later
RemoveExpired_Late(ppt, timers) ==
    LET t1 == np_array([p \in DOMAIN timers |->
                           IF ppt[p] > -1 THEN timers[p] - 1 ELSE timers[p]])
        expired_waiting_pickup_points_mask ==
            np_array([p \in DOMAIN timers |-> ppt[p] > -1 /\ t1[p] < 0])
    IN  [ targets |-> np_array([p \in DOMAIN ppt |->
                          IF expired_waiting_pickup_points_mask[p] THEN -1 ELSE ppt[p]]),
          timers |-> np_array([p \in DOMAIN timers |->
                          IF expired_waiting_pickup_points_mask[p] THEN -1 ELSE t1[p]]),
          expired |-> expired_waiting_pickup_points_mask ]

\* RemoveExpired leaving the target of an expired point for the claim detection
RemoveExpired_Keep(ppt, timers) ==
    LET t1 == np_array([p \in DOMAIN timers |->
                           IF ppt[p] > -1 THEN timers[p] - 1 ELSE timers[p]])
        expired_waiting_pickup_points_mask ==
            np_array([p \in DOMAIN timers |-> t1[p] = 0])
    IN  [ targets |-> ppt,
          timers |-> t1,
          expired |-> expired_waiting_pickup_points_mask ]

\* RemoveExpired clearing the target of an expired point and not its timer
RemoveExpired_TargetOnly(ppt, timers) ==
    LET t1 == np_array([p \in DOMAIN timers |->
                           IF ppt[p] > -1 THEN timers[p] - 1 ELSE timers[p]])
        expired_waiting_pickup_points_mask ==
            np_array([p \in DOMAIN timers |-> t1[p] = 0])
    IN  [ targets |-> np_array([p \in DOMAIN ppt |->
                          IF expired_waiting_pickup_points_mask[p] THEN -1 ELSE ppt[p]]),
          timers |-> t1,
          expired |-> expired_waiting_pickup_points_mask ]

\* RemoveExpired taking two ticks off every Waiting timer
RemoveExpired_Twice(ppt, timers) ==
    LET t1 == np_array([p \in DOMAIN timers |->
                           IF ppt[p] > -1 THEN timers[p] - 2 ELSE timers[p]])
        expired_waiting_pickup_points_mask ==
            np_array([p \in DOMAIN timers |-> t1[p] = 0])
    IN  [ targets |-> np_array([p \in DOMAIN ppt |->
                          IF expired_waiting_pickup_points_mask[p] THEN -1 ELSE ppt[p]]),
          timers |-> np_array([p \in DOMAIN timers |->
                          IF expired_waiting_pickup_points_mask[p] THEN -1 ELSE t1[p]]),
          expired |-> expired_waiting_pickup_points_mask ]

\* "Remove expired pickup points"
RemoveExpired(ppt, timers) ==
    LET t1 == np_array([p \in DOMAIN timers |->
                           IF ppt[p] > -1 THEN timers[p] - 1 ELSE timers[p]])
        expired_waiting_pickup_points_mask ==
            np_array([p \in DOMAIN timers |-> t1[p] = 0])
    IN  [ targets |-> np_array([p \in DOMAIN ppt |->
                          IF expired_waiting_pickup_points_mask[p] THEN -1 ELSE ppt[p]]),
          timers |-> np_array([p \in DOMAIN timers |->
                          IF expired_waiting_pickup_points_mask[p] THEN -1 ELSE t1[p]]),
          expired |-> expired_waiting_pickup_points_mask ]

\* agent_and_pickup_point_collisions
PickupCollisions(positions, ppos) ==
    np_array([a \in DOMAIN positions |->
        np_array([p \in DOMAIN ppos |->
            Within(ppos[p], positions[a], PICKUP_POSITION_TOLERANCE)])])

\* NewDeliveringAgentsMask without the test that the agent carries nothing
NewDeliveringAgentsMask_Carrying(collisions, candidates, adt, ppt) ==
    np_array([a \in DOMAIN adt |->
        /\ \E p \in DOMAIN collisions[a] : collisions[a][p]
        /\ ppt[candidates[a]] > -1])

\* NewDeliveringAgentsMask letting one agent claim per tick, the lowest id first
NewDeliveringAgentsMask_OnePerTick(collisions, candidates, adt, ppt) ==
    LET claims(a) == /\ \E p \in DOMAIN collisions[a] : collisions[a][p]
                     /\ adt[a] = -1
                     /\ ppt[candidates[a]] > -1
    IN  np_array([a \in DOMAIN adt |->
            claims(a) /\ ~ \E b \in DOMAIN adt : b < a /\ claims(b)])

\* new_delivering_agents_mask
NewDeliveringAgentsMask(collisions, candidates, adt, ppt) ==
    np_array([a \in DOMAIN adt |->
        /\ \E p \in DOMAIN collisions[a] : collisions[a][p]
        /\ adt[a] = -1
        /\ ppt[candidates[a]] > -1])

\* "Detect pickups": the arrays after the claims, and the locals of the block
DetectPickups(positions, ppos, adt, ppt, timers) ==
    LET collisions == PickupCollisions(positions, ppos)
        new_served_pickup_point_candidates ==
            np_array([a \in DOMAIN adt |-> np_argmax(collisions[a])])
        new_delivering_agents_mask ==
            NewDeliveringAgentsMask(collisions, new_served_pickup_point_candidates, adt, ppt)
        new_served_pickup_points ==
            { new_served_pickup_point_candidates[a] :
                a \in { b \in DOMAIN adt : new_delivering_agents_mask[b] } }
    IN  [ agent_targets |-> np_array([a \in DOMAIN adt |->
                                IF new_delivering_agents_mask[a]
                                THEN ppt[new_served_pickup_point_candidates[a]]
                                ELSE adt[a]]),
          targets |-> np_array([p \in DOMAIN ppt |->
                          IF p \in new_served_pickup_points THEN -1 ELSE ppt[p]]),
          timers |-> np_array([p \in DOMAIN timers |->
                          IF p \in new_served_pickup_points THEN -1 ELSE timers[p]]),
          candidates |-> new_served_pickup_point_candidates,
          in_range |-> np_array([a \in DOMAIN adt |->
                                    \E p \in DOMAIN collisions[a] : collisions[a][p]]),
          candidate_waiting |-> np_array([a \in DOMAIN adt |->
                                    /\ \E p \in DOMAIN collisions[a] : collisions[a][p]
                                    /\ ppt[new_served_pickup_point_candidates[a]] > -1]),
          was_available |-> np_array([a \in DOMAIN adt |-> adt[a] = -1]),
          mask |-> new_delivering_agents_mask ]

\* RegenerationDraws filling up to NUM_REQUESTS without counting the points
\* that are still Waiting
RegenerationDraws_Full(ppt) ==
    LET inactive_pickup_points == { p \in DOMAIN ppt : ppt[p] = -1 }
    IN  RandomRequests(inactive_pickup_points, NUM_REQUESTS)

\* "Regenerate waiting pickup points": the draws numpy can make
RegenerationDraws(ppt) ==
    LET inactive_pickup_points == { p \in DOMAIN ppt : ppt[p] = -1 }
    IN  RandomRequests(inactive_pickup_points,
                       NUM_REQUESTS - NUM_PICKUP_POINTS
                           + Cardinality(inactive_pickup_points))

\* Regenerate without the timer assignment
Regenerate_NoTimer(ppt, timers, draw) ==
    [ targets |-> np_array([p \in DOMAIN ppt |->
                     IF p \in DOMAIN draw THEN draw[p] ELSE ppt[p]]),
      timers |-> timers ]

\* the two assignments that make the drawn points Waiting
Regenerate(ppt, timers, draw) ==
    [ targets |-> np_array([p \in DOMAIN ppt |->
                     IF p \in DOMAIN draw THEN draw[p] ELSE ppt[p]]),
      timers |-> np_array([p \in DOMAIN timers |->
                     IF p \in DOMAIN draw THEN MAX_PICKUP_WAIT_TIME ELSE timers[p]]) ]

\* DeliveredAgents testing every delivery point, not the agent's target only
DeliveredAgents_Any(positions, adt, dpos) ==
    np_array([a \in DOMAIN adt |->
        /\ adt[a] > -1
        /\ \E d \in DOMAIN dpos : Within(dpos[d], positions[a], DELIVERY_POSITION_TOLERANCE)])

\* "Detect deliveries": delivered_agents as a mask
DeliveredAgents(positions, adt, dpos) ==
    np_array([a \in DOMAIN adt |->
        /\ adt[a] > -1
        /\ Within(dpos[adt[a]], positions[a], DELIVERY_POSITION_TOLERANCE)])

\* ClearDelivered writing a value that is neither -1 nor a delivery id
ClearDelivered_Low(adt, delivered) ==
    np_array([a \in DOMAIN adt |-> IF delivered[a] THEN -2 ELSE adt[a]])

\* ClearDelivered leaving the delivered target with the agent
ClearDelivered_Keep(adt, delivered) == adt

\* ClearDelivered emptying every agent when one agent delivers
ClearDelivered_Everyone(adt, delivered) ==
    np_array([a \in DOMAIN adt |->
        IF \E b \in DOMAIN adt : delivered[b] THEN -1 ELSE adt[a]])

\* self._agent_delivery_targets[delivered_agents] = -1
ClearDelivered(adt, delivered) ==
    np_array([a \in DOMAIN adt |-> IF delivered[a] THEN -1 ELSE adt[a]])

\* AgentRewards paying the delivery reward in advance, with the pickup reward
AgentRewards_Advance(mask, delivered) ==
    np_array([a \in DOMAIN mask |->
        IF mask[a] THEN PICKUP_REWARD + DELIVERY_REWARD ELSE 0])

\* agent_rewards
AgentRewards(mask, delivered) ==
    np_array([a \in DOMAIN mask |->
        (IF mask[a] THEN PICKUP_REWARD ELSE 0)
            + (IF delivered[a] THEN DELIVERY_REWARD ELSE 0)])

\* episode_done with the comparison strict
EpisodeDone_After(t) == t > MAX_EPISODE_TIME

\* episode_done true at the tick that ends the episode only
EpisodeDone_Exact(t) == t = MAX_EPISODE_TIME

\* episode_done
EpisodeDone(t) == t >= MAX_EPISODE_TIME

\* "Compute dones"
Dones(t) ==
    [ agents |-> np_array([a \in Agents |-> EpisodeDone(t)]), all |-> EpisodeDone(t) ]

NoLocals == << >>

\* -------------------------------------------------------------- operations
\* WarehouseContinuous.__init__
ContinuousInit ==
    /\ episode_time = 0
    /\ agent_bodies = << >>
    /\ agent_positions = [a \in Agents |-> ZeroVec]
    /\ agent_delivery_targets = [a \in Agents |-> 0]
    /\ delivery_point_positions = [d \in DeliveryPoints |-> ZeroVec]
    /\ pickup_point_positions = [p \in PickupPoints |-> ZeroVec]
    /\ pickup_point_targets = [p \in PickupPoints |-> 0]
    /\ pickup_point_timers = [p \in PickupPoints |-> 0]
    /\ observations = << >>
    /\ rewards = << >>
    /\ dones = << >>
    /\ locals = NoLocals
    /\ returned = "__init__"

\* no Warehouse instance
NoWarehouse == << >>

\* no instance that is followed through its draws
NoInstance == << >>

\* the state after WarehouseContinuous() alone was constructed
Init ==
    /\ ContinuousInit
    /\ warehouse = NoWarehouse
    /\ warehouse_returned = NoWarehouse
    /\ np_random = 0
    /\ instance = NoInstance

\* WarehouseContinuous.reset: what it does to the environment and to np.random
WarehouseContinuous_reset ==
    /\ episode_time < MaxSteps
    /\ \E draw \in RandomRequests(PickupPoints, NUM_REQUESTS) :
       \E positions \in { np_array([a \in Agents |-> AGENT_INITIAL_POSITIONS[a + 1]]) } :
       \E ppos \in { PickupPointPositionsOf(PICKUP_RACKS_ARRANGEMENT) } :
       \E dpos \in { np_array([d \in DeliveryPoints |-> DeliveryPointPositionOf(d)]) } :
       \E fresh \in { Regenerate([p \in PickupPoints |-> -1],
                                 [p \in PickupPoints |-> -1], draw) } :
           /\ episode_time' = 0
           /\ agent_bodies' =
                  [a \in Agents |-> [position |-> positions[a], linearVelocity |-> ZeroVec]]
           /\ agent_positions' = positions
           /\ agent_delivery_targets' = [a \in Agents |-> -1]
           /\ pickup_point_positions' = ppos
           /\ delivery_point_positions' = dpos
           /\ pickup_point_targets' = fresh.targets
           /\ pickup_point_timers' = fresh.timers
           /\ observations' = ResetObservations(positions, ppos, dpos, fresh.targets)
           /\ UNCHANGED << rewards, dones >>
           /\ locals' = NoLocals
           /\ returned' = "reset"
           /\ UNCHANGED << warehouse, warehouse_returned, np_random >>

\* WarehouseContinuous.reset
Reset == WarehouseContinuous_reset /\ UNCHANGED instance

\* WarehouseContinuous.step(action_dict), the agents' bodies existing: what it
\* does to the environment and to np.random
WarehouseContinuous_step(action_dict, Ls) ==
    /\ agent_bodies # << >>
    /\ episode_time < MaxSteps
    /\ \E nb \in world_Step(UpdateVelocities(agent_bodies, action_dict), Ls) :
       \E positions \in { BodyPositions(nb) } :
       \E exp \in { RemoveExpired(pickup_point_targets, pickup_point_timers) } :
       \E pick \in { DetectPickups(positions, pickup_point_positions,
                                   agent_delivery_targets, exp.targets, exp.timers) } :
       \E draw \in RegenerationDraws(pick.targets) :
       \E regen \in { Regenerate(pick.targets, pick.timers, draw) } :
       \E delivered \in { DeliveredAgents(positions, pick.agent_targets,
                                          delivery_point_positions) } :
       \E adt \in { ClearDelivered(pick.agent_targets, delivered) } :
           /\ episode_time' = episode_time + 1
           /\ agent_bodies' = nb
           /\ agent_positions' = positions
           /\ agent_delivery_targets' = adt
           /\ pickup_point_targets' = regen.targets
           /\ pickup_point_timers' = regen.timers
           /\ observations' =
                  StepObservations(positions, adt, pickup_point_positions,
                                   delivery_point_positions, regen.targets)
           /\ rewards' = AgentRewards(pick.mask, delivered)
           /\ dones' = Dones(episode_time + 1)
           /\ locals' = [ candidates |-> pick.candidates,
                          in_range |-> pick.in_range,
                          candidate_waiting |-> pick.candidate_waiting,
                          was_available |-> pick.was_available,
                          mask |-> pick.mask,
                          regenerated |-> DOMAIN draw,
                          delivered |-> delivered ]
           /\ returned' = "step"
           /\ UNCHANGED << delivery_point_positions, pickup_point_positions,
                           warehouse, warehouse_returned, np_random >>

\* WarehouseContinuous.step(action_dict), the agents' bodies existing
StepOn(action_dict, Ls) ==
    WarehouseContinuous_step(action_dict, Ls) /\ UNCHANGED instance

Step ==
    \E keys \in SUBSET Agents :
        \E action_dict \in [keys -> Vels] : StepOn(action_dict, Locs)

\* step before the first reset: there is no body yet.  A non-empty action_dict
\* raises IndexError at the first velocity update; an empty one runs up to the
\* regeneration, where np.random.choice raises ValueError on a negative size.
StepBeforeReset ==
    /\ agent_bodies = << >>
    /\ episode_time < MaxSteps
    /\ \E keys \in SUBSET Agents :
       \E exp \in { RemoveExpired(pickup_point_targets, pickup_point_timers) } :
       \E pick \in { DetectPickups(agent_positions, pickup_point_positions,
                                   agent_delivery_targets, exp.targets, exp.timers) } :
           /\ episode_time' = episode_time + 1
           /\ IF keys # {}
              THEN UNCHANGED << agent_delivery_targets, pickup_point_targets,
                                pickup_point_timers >>
              ELSE /\ RegenerationDraws(pick.targets) = {}
                   /\ agent_delivery_targets' = pick.agent_targets
                   /\ pickup_point_targets' = pick.targets
                   /\ pickup_point_timers' = pick.timers
           /\ returned' = "raise"
           /\ UNCHANGED << agent_bodies, agent_positions, delivery_point_positions,
                           pickup_point_positions, observations, rewards, dones,
                           locals, warehouse, warehouse_returned, np_random, instance >>

Next == Reset \/ Step \/ StepBeforeReset

Spec == Init /\ [][Next]_vars

\* --------------------------------------------- steps to the tolerance edge
\* The velocities that bring agent 0 from its initial position to 0.3 m and to
\* 0.2 m from pickup point 0 and, two ticks later, to 0.3 m and to 0.2 m from
\* delivery point 0, and agent 1 to 0.3 m from pickup point 2.  A body keeps
\* its velocity until it is commanded again, and BoundaryLocs are the
\* positions on these ways.
BoundaryVels ==
    << { << 15, 12 >>, << 15, 13 >>, << -5, -14 >>, << -5, -11 >>, << -5, -12 >> },
       { << -12, -15 >> } >>

BoundaryLocs ==
    { << 30, 30 >>, << 45, 42 >>, << 45, 43 >>, << 40, 29 >>,
      << 35, 17 >>, << 35, 18 >>, << 70, 70 >>, << 58, 55 >> }

StepBoundary ==
    \E keys \in SUBSET Agents :
        \E action_dict \in { f \in [keys -> UNION { BoundaryVels[a + 1] : a \in Agents }] :
                               \A a \in keys : f[a] \in BoundaryVels[a + 1] } :
            StepOn(action_dict, BoundaryLocs)

NextBoundary == Reset \/ StepBoundary

SpecBoundary == Init /\ [][NextBoundary]_vars

\* ------------------------------------------ steps to two points at once
\* The velocities that bring agent 0 from its initial position to 0.2 m from
\* pickup point 0 or 3 and agent 1 to 0.2 m from pickup point 2, in the same
\* tick or one after the other; ZeroVec stops a body.
ClaimVels ==
    << { ZeroVec, << 15, 13 >>, << 15, 23 >> },
       { ZeroVec, << -13, -15 >> } >>

ClaimLocs ==
    { << 30, 30 >>, << 45, 43 >>, << 45, 53 >>,
      << 70, 70 >>, << 57, 55 >> }

StepClaims ==
    \E keys \in SUBSET Agents :
        \E action_dict \in { f \in [keys -> UNION { ClaimVels[a + 1] : a \in Agents }] :
                               \A a \in keys : f[a] \in ClaimVels[a + 1] } :
            StepOn(action_dict, ClaimLocs)

NextClaims == Reset \/ StepClaims

SpecClaims == Init /\ [][NextClaims]_vars

\* ------------------------------------------ claims and deliveries counted
\* The velocities that take agent 0 from its initial position to 0.2 m from
\* pickup point 0, from there onto delivery point 0 and back, one tick each,
\* and agent 1 to 0.2 m from pickup point 2, where ZeroVec stops it.
LedgerVels ==
    << { << 15, 13 >>, << -10, -28 >>, << 10, 28 >> },
       { ZeroVec, << -13, -15 >> } >>

LedgerLocs ==
    { << 30, 30 >>, << 45, 43 >>, << 35, 15 >>, << 70, 70 >>, << 57, 55 >> }

\* What a caller that follows the returned rewards has counted since the last
\* reset: for every agent the pickup rewards (claims), the delivery rewards
\* (deliveries) and the target of the point of its last claim.
LedgerAtReset ==
    [ claims |-> [a \in Agents |-> 0],
      deliveries |-> [a \in Agents |-> 0],
      claimed_target |-> [a \in Agents |-> -1] ]

InitLedger ==
    /\ ContinuousInit
    /\ warehouse = NoWarehouse
    /\ warehouse_returned = NoWarehouse
    /\ np_random = 0
    /\ instance = LedgerAtReset

ResetCounted ==
    /\ WarehouseContinuous_reset
    /\ instance' = LedgerAtReset

StepCounted ==
    /\ \E keys \in SUBSET Agents :
       \E action_dict \in { f \in [keys -> UNION { LedgerVels[a + 1] : a \in Agents }] :
                              \A a \in keys : f[a] \in LedgerVels[a + 1] } :
           WarehouseContinuous_step(action_dict, LedgerLocs)
    /\ instance' =
           [ claims |-> [a \in Agents |->
                 instance.claims[a] + (IF locals'.mask[a] THEN 1 ELSE 0)],
             deliveries |-> [a \in Agents |->
                 instance.deliveries[a] + (IF locals'.delivered[a] THEN 1 ELSE 0)],
             claimed_target |-> [a \in Agents |->
                 IF locals'.mask[a]
                 THEN pickup_point_targets[locals'.candidates[a]]
                 ELSE instance.claimed_target[a]] ]

NextLedger == ResetCounted \/ StepCounted

SpecLedger == InitLedger /\ [][NextLedger]_vars

\* ------------------------------------------- steps onto and between points
\* reward_range of the class
reward_range == << 0, 1 >>

\* the delivery points of the source's layout, NUM_DELIVERY_POINTS there
SourceDeliveryPoints == 0 .. 4 * ((AREA_DIMENSION_M - 40) \div 10) - 1

\* the positions on a point and 0.28 m from it, all within both tolerances
NearOffsets == { << 0, 0 >>, << 2, 2 >> }

NearPickupLocs ==
    { VecAdd(PickupPointPositionsOf(PICKUP_RACKS_ARRANGEMENT)[p], o) :
        p \in PickupPoints, o \in NearOffsets }

NearDeliveryLocs ==
    { VecAdd(DeliveryPointPositionOf(d), o) : d \in DeliveryPoints, o \in NearOffsets }

RewardLocs ==
    { AGENT_INITIAL_POSITIONS[a + 1] : a \in Agents } \cup NearPickupLocs \cup NearDeliveryLocs

\* Agent 0 is sent in one tick from its initial position to a position near a
\* pickup or a delivery point, and from a position near a pickup point onto a
\* delivery point; agent 1 is given no command.
RewardVels ==
    { << l[1] - AGENT_INITIAL_POSITIONS[1][1], l[2] - AGENT_INITIAL_POSITIONS[1][2] >> :
        l \in NearPickupLocs \cup NearDeliveryLocs }
        \cup { << DeliveryPointPositionOf(d)[1] - l[1], DeliveryPointPositionOf(d)[2] - l[2] >> :
                 d \in DeliveryPoints, l \in NearPickupLocs }

StepReward ==
    \E keys \in SUBSET { 0 } :
        \E action_dict \in [keys -> RewardVels] : StepOn(action_dict, RewardLocs)

NextReward == Reset \/ StepReward

SpecReward == Init /\ [][NextReward]_vars

\* ------------------------------------------------- the bodies of the world
\* self._world is built once, in __init__; reset creates the agent and border
\* bodies in it and rebinds self._agent_bodies and self._border_bodies to the
\* new ones.  instance.stale lists the bodies of the world that these two
\* attributes no longer name, as they were when reset dropped them.  The
\* engine's handling of such bodies is not modelled: no step is explored from
\* a world that has one.
MaxResets == 3

\* "Init borders": the four static bodies
BorderBodies ==
    << [ type |-> "static",
         position |-> << WORLD_DIMENSION_M \div 2, BORDER_WIDTH_M \div 2 >> ],
       [ type |-> "static",
         position |-> << WORLD_DIMENSION_M \div 2, WORLD_DIMENSION_M - BORDER_WIDTH_M \div 2 >> ],
       [ type |-> "static",
         position |-> << BORDER_WIDTH_M \div 2, WORLD_DIMENSION_M \div 2 >> ],
       [ type |-> "static",
         position |-> << WORLD_DIMENSION_M - BORDER_WIDTH_M \div 2, WORLD_DIMENSION_M \div 2 >> ] >>

\* self._world.bodies: the bodies no attribute names, then those of
\* self._agent_bodies and self._border_bodies
WorldBodies ==
    IF agent_bodies = << >>
    THEN instance.stale
    ELSE instance.stale
             \o [k \in 1 .. NUM_AGENTS |->
                    [ type |-> "dynamic", position |-> agent_bodies[k - 1].position ]]
             \o BorderBodies

\* the world after __init__: world(gravity=(0, 0), doSleep=False) has no body
InitWorld ==
    /\ ContinuousInit
    /\ warehouse = NoWarehouse
    /\ warehouse_returned = NoWarehouse
    /\ np_random = 0
    /\ instance = [ stale |-> << >> ]

\* reset: nothing removes the bodies that are in the world
WorldReset ==
    /\ Len(WorldBodies) < MaxResets * (NUM_AGENTS + Len(BorderBodies))
    /\ WarehouseContinuous_reset
    /\ instance' = [ stale |-> WorldBodies ]

\* step in the first episode, with commands for agent 0
WorldStep ==
    /\ instance.stale = << >>
    /\ \E keys \in SUBSET { 0 } :
           \E action_dict \in [keys -> Vels] : StepOn(action_dict, Locs)

NextWorld == WorldReset \/ WorldStep

SpecWorld == InitWorld /\ [][NextWorld]_vars

\* -------------------------------------------- observations the caller keeps
\* "self_position": self._agent_positions[i] indexes the array with an
\* integer, which in numpy gives a view of row i and no copy; the other fields
\* are rows of arrays built in the call or copies made by np.delete, boolean
\* indexing and np.hstack.  reset binds self._agent_positions to a new array
\* and step writes into the array in place.  instance.held is the observation
\* of agent HeldAgent the caller kept in this episode (none: << >>), with the
\* values it had when it was returned.
HeldAgent == 0

InitHeld ==
    /\ ContinuousInit
    /\ warehouse = NoWarehouse
    /\ warehouse_returned = NoWarehouse
    /\ np_random = 0
    /\ instance = [ held |-> << >> ]

\* the observation the caller holds, as it reads now
HeldNow ==
    IF instance.held = << >>
    THEN << >>
    ELSE [instance.held EXCEPT !.self_position = agent_positions[HeldAgent]]

\* the commands of the caller that keeps observations
HeldVels == { << 15, 13 >>, << -15, -13 >> }

\* reset, the caller keeping the returned observation or none
ResetHeld ==
    /\ WarehouseContinuous_reset
    /\ \/ instance' = [ held |-> observations'[HeldAgent] ]
       \/ instance' = [ held |-> << >> ]

\* step with a command for agent 0 or none, the caller keeping the returned
\* observation if it has none, or the one it has
StepHeld ==
    /\ \E keys \in SUBSET { 0 } :
           \E action_dict \in [keys -> HeldVels] :
               WarehouseContinuous_step(action_dict, Locs)
    /\ \/ /\ instance.held = << >>
          /\ instance' = [ held |-> observations'[HeldAgent] ]
       \/ instance' = instance

NextHeld == ResetHeld \/ StepHeld

SpecHeld == InitHeld /\ [][NextHeld]_vars

\* ------------------------------------------------------- legacy Warehouse
continuous_vars ==
    << episode_time, agent_bodies, agent_positions, agent_delivery_targets,
       delivery_point_positions, pickup_point_positions, pickup_point_targets,
       pickup_point_timers, observations, rewards, dones, locals, returned >>

\* The positions the legacy agents are observed at and the velocities
\* commanded: agents 0 and 1 start 4 m apart at <<60, 60>> and <<60, 140>> and
\* can move 1.7 m towards each other, to 0.6 m apart; the others stay.
W_Vels == { ZeroVec, << 0, 34 >>, << 0, -34 >> }
W_Moving == { 0, 1 }

\* a[i] for a Python index: a negative i counts from the end
Wrap(i, n) == IF i < 0 THEN i + n ELSE i

\* "Init agents": the positions, x in the outer loop and y in the inner one
W_AgentInitialPositions ==
    LET racks_diff == (W_PICKUP_RACKS_ARRANGEMENT[2] - W_PICKUP_RACKS_ARRANGEMENT[1]) \div 2
        arrangement ==
            << W_PICKUP_RACKS_ARRANGEMENT[1] - racks_diff >>
                \o [k \in 1 .. Len(W_PICKUP_RACKS_ARRANGEMENT) |->
                       W_PICKUP_RACKS_ARRANGEMENT[k] + racks_diff]
        n == Len(arrangement)
    IN  np_array([a \in 0 .. n * n - 1 |->
            << arrangement[(a \div n) + 1], arrangement[(a % n) + 1] >>])

W_Locs == { W_AgentInitialPositions[a] : a \in W_Agents } \cup { << 60, 94 >>, << 60, 106 >> }

\* "Init pickup point positions"
W_PickupPointPositions ==
    LET n == Len(W_PICKUP_RACKS_ARRANGEMENT)
    IN  np_array([p \in 0 .. 4 * n * n - 1 |->
            LET r == p \div 4
                x == W_PICKUP_RACKS_ARRANGEMENT[(r \div n) + 1]
                y == W_PICKUP_RACKS_ARRANGEMENT[(r % n) + 1]
            IN  CASE p % 4 = 0 -> << x - 10, y - 10 >>
                  [] p % 4 = 1 -> << x + 10, y - 10 >>
                  [] p % 4 = 2 -> << x + 10, y + 10 >>
                  [] OTHER -> << x - 10, y + 10 >>])

\* "Init delivery point positions": four rows for val in range(2, int(AREA) - 2)
W_DeliveryPointPositions ==
    np_array([d \in 0 .. 4 * ((W_AREA_DIMENSION_M \div 20) - 4) - 1 |->
        LET val == 20 * (2 + (d \div 4))
            side == d % 4
        IN  CASE side = 0 -> << W_BORDER_WIDTH_M + val + 10, W_BORDER_WIDTH_M + 10 >>
              [] side = 1 -> << W_BORDER_WIDTH_M + val + 10,
                                W_WORLD_DIMENSION_M - W_BORDER_WIDTH_M - 10 >>
              [] side = 2 -> << W_BORDER_WIDTH_M + 10, W_BORDER_WIDTH_M + val + 10 >>
              [] OTHER -> << W_WORLD_DIMENSION_M - W_BORDER_WIDTH_M - 10,
                             W_BORDER_WIDTH_M + val + 10 >>])

\* The two np.random.choice(..., replace=False) draws of Warehouse and their
\* pairing.  Of the maps numpy can draw, the model explores four: the size
\* lowest or the size highest ids of the population, with the delivery ids
\* 0 .. size-1 ascending or descending.  Empty when numpy raises ValueError.
W_RandomRequests(population, size) ==
    IF size < 0 \/ size > Cardinality(population) \/ size > W_NUM_DELIVERY_POINTS
    THEN {}
    ELSE LET rank == [p \in population |-> Cardinality({ q \in population : q < p })]
             skipped == Cardinality(population) - size
             lowest == { p \in population : rank[p] < size }
             highest == { p \in population : rank[p] >= skipped }
         IN  { np_array([p \in lowest |-> rank[p]]),
               np_array([p \in lowest |-> size - 1 - rank[p]]),
               np_array([p \in highest |-> rank[p] - skipped]),
               np_array([p \in highest |-> size - 1 - (rank[p] - skipped)]) }

\* the per-agent observation dictionary of Warehouse.reset and Warehouse.step
W_Observation(i, positions, availabilities) ==
    [ self_position |-> positions[i],
      self_availability |-> np_array([k \in 0 .. 0 |-> availabilities[i]]),
      self_delivery_target |-> None,
      other_positions |-> np_delete(positions, i),
      other_availabilities |-> np_delete(availabilities, i),
      other_delivery_targets |-> None,
      requests |-> None ]

W_Observations(positions, availabilities) ==
    np_array([i \in W_Agents |-> W_Observation(i, positions, availabilities)])

\* ------------------------------------------------- legacy Warehouse: step
Max(S) == CHOOSE x \in S : \A y \in S : y <= x

\* Two legacy agent bodies touch: their circles of W_AGENT_RADIUS overlap.
W_InContact(bodies, a) ==
    \E b \in DOMAIN bodies :
        /\ b # a
        /\ Within(bodies[a].position, bodies[b].position, 2 * W_AGENT_RADIUS)

\* world.Step of the legacy world, as world_Step
W_world_Step(bodies, Ls) ==
    IF \E a \in DOMAIN bodies : W_InContact(bodies, a)
    THEN {}
    ELSE { nb \in { np_array([a \in DOMAIN bodies |->
                       [bodies[a] EXCEPT
                           !.position = VecAdd(@, bodies[a].linearVelocity)]]) } :
             \A a \in DOMAIN nb : nb[a].position \in Ls }

\* "Update agent positions": the rows of the bodies that exist
W_BodyPositions(positions, bodies) ==
    np_array([a \in DOMAIN positions |->
        IF a \in DOMAIN bodies THEN bodies[a].position ELSE positions[a]])

\* W_CollisionCounts without the "- 1" that takes the agent itself off
W_CollisionCounts_Self(positions) ==
    np_array([a \in DOMAIN positions |->
        Cardinality({ b \in DOMAIN positions :
            Within(positions[a], positions[b],
                   2 * W_AGENT_RADIUS + AGENT_COLLISION_EPSILON) })])

\* agent_eachother_collision_counts
W_CollisionCounts(positions) ==
    np_array([a \in DOMAIN positions |->
        Cardinality({ b \in DOMAIN positions :
            Within(positions[a], positions[b],
                   2 * W_AGENT_RADIUS + AGENT_COLLISION_EPSILON) }) - 1])

\* "Decrement timers" of the rows whose target is set
W_Decrement(targets, times) ==
    np_array([p \in DOMAIN times |-> IF targets[p] > -1 THEN times[p] - 1 ELSE times[p]])

\* arr[mask] = value, mask being "times <= 0.0"
W_ClearExpired(arr, times) ==
    np_array([p \in DOMAIN arr |-> IF times[p] <= 0 THEN -1 ELSE arr[p]])

\* self._agent_availabilities[picker_agent_idxs[expired]] = 1: a picker index
\* of -1 is the last agent
W_Release(availabilities, pickers, times) ==
    LET released == { Wrap(pickers[p], Size(availabilities)) :
                        p \in { q \in DOMAIN times : times[q] <= 0 } }
    IN  np_array([a \in DOMAIN availabilities |->
            IF a \in released THEN 1 ELSE availabilities[a]])

\* the pairs (picker_agent_idxs[k], new_served_pickup_point_idxs[k])
W_PickerPairs(positions, ppos, targets) ==
    UNION { { << a, p >> : a \in { b \in DOMAIN positions :
                  Within(positions[b], ppos[p], PICKUP_POSITION_EPSILON) } } :
            p \in { q \in DOMAIN targets : targets[q] > -1 } }

\* temp_rewards: an assignment through repeated indices keeps the last value
W_TempRewards(counts, pairs, times) ==
    np_array([a \in DOMAIN counts |->
        counts[a] * COLLISION_REWARD
            + (IF \E pair \in pairs : pair[1] = a
               THEN PICKUP_BASE_REWARD
                        + times[Max({ pair[2] : pair \in { q \in pairs : q[1] = a } })]
                              * PICKUP_TIME_REWARD_MULTIPLIER
               ELSE 0)])

\* the Warehouse attributes after the body of step, for the bodies nb the
\* physics left and the regeneration draw that numpy made
W_Stepped(w, nb, draw) ==
    LET positions == W_BodyPositions(w.agent_positions, nb)
        wr1 == W_Decrement(w.waiting_pickup_point_target_idxs,
                           w.waiting_pickup_point_remaining_times)
        sr1 == W_Decrement(w.served_pickup_point_target_idxs,
                           w.served_pickup_point_remaining_times)
        wt2 == W_ClearExpired(w.waiting_pickup_point_target_idxs, wr1)
        wr2 == W_ClearExpired(wr1, wr1)
        av1 == W_Release(w.agent_availabilities,
                         w.served_pickup_point_picker_agent_idxs, sr1)
        sp2 == W_ClearExpired(w.served_pickup_point_picker_agent_idxs, sr1)
        st2 == W_ClearExpired(w.served_pickup_point_target_idxs, sr1)
        sr2 == W_ClearExpired(sr1, sr1)
        pairs == W_PickerPairs(positions, w.pickup_point_positions, wt2)
        served == { pair[2] : pair \in pairs }
    IN  [ agent_bodies |-> nb,
          agent_positions |-> positions,
          agent_availabilities |-> np_array([a \in DOMAIN av1 |->
              IF \E pair \in pairs : pair[1] = a THEN 0 ELSE av1[a]]),
          pickup_point_positions |-> w.pickup_point_positions,
          delivery_point_positions |-> w.delivery_point_positions,
          waiting_pickup_point_target_idxs |-> np_array([p \in DOMAIN wt2 |->
              IF p \in DOMAIN draw THEN draw[p] ELSE IF p \in served THEN -1 ELSE wt2[p]]),
          waiting_pickup_point_remaining_times |-> np_array([p \in DOMAIN wr2 |->
              IF p \in DOMAIN draw THEN W_MAX_PICKUP_WAIT_TIME
              ELSE IF p \in served THEN -1 ELSE wr2[p]]),
          served_pickup_point_picker_agent_idxs |-> np_array([p \in DOMAIN sp2 |->
              IF p \in served
              THEN Max({ pair[1] : pair \in { q \in pairs : q[2] = p } })
              ELSE sp2[p]]),
          served_pickup_point_target_idxs |-> np_array([p \in DOMAIN st2 |->
              IF p \in served THEN wt2[p] ELSE st2[p]]),
          served_pickup_point_remaining_times |-> np_array([p \in DOMAIN sr2 |->
              IF p \in served THEN 0 ELSE sr2[p]]) ]

\* the inactive pickup points the regeneration of step draws from
W_Inactive(w, nb) ==
    LET positions == W_BodyPositions(w.agent_positions, nb)
        wr1 == W_Decrement(w.waiting_pickup_point_target_idxs,
                           w.waiting_pickup_point_remaining_times)
        wt2 == W_ClearExpired(w.waiting_pickup_point_target_idxs, wr1)
        pairs == W_PickerPairs(positions, w.pickup_point_positions, wt2)
    IN  { p \in DOMAIN wt2 : wt2[p] = -1 \/ \E pair \in pairs : pair[2] = p }

\* the locals of step the claims read
W_StepLocals(w, nb) ==
    LET positions == W_BodyPositions(w.agent_positions, nb)
        wr1 == W_Decrement(w.waiting_pickup_point_target_idxs,
                           w.waiting_pickup_point_remaining_times)
        wt2 == W_ClearExpired(w.waiting_pickup_point_target_idxs, wr1)
        wr2 == W_ClearExpired(wr1, wr1)
        pairs == W_PickerPairs(positions, w.pickup_point_positions, wt2)
        counts == W_CollisionCounts(positions)
    IN  [ agent_eachother_collision_counts |-> counts,
          pairs |-> pairs,
          remaining_times |-> wr2,
          temp_rewards |-> W_TempRewards(counts, pairs, wr2) ]

\* ------------------------------------------- legacy Warehouse: operations
\* Warehouse.__init__: the attributes are arrays of zeros, no body exists
W_Constructed ==
    [ agent_bodies |-> << >>,
      agent_positions |-> np_array([a \in W_Agents |-> ZeroVec]),
      agent_availabilities |-> np_array([a \in W_Agents |-> 0]),
      pickup_point_positions |-> np_array([p \in W_PickupPoints |-> ZeroVec]),
      delivery_point_positions |->
          np_array([d \in 0 .. W_NUM_DELIVERY_POINTS - 1 |-> ZeroVec]),
      waiting_pickup_point_target_idxs |-> np_array([p \in W_PickupPoints |-> 0]),
      waiting_pickup_point_remaining_times |-> np_array([p \in W_PickupPoints |-> 0]),
      served_pickup_point_picker_agent_idxs |-> np_array([p \in W_PickupPoints |-> 0]),
      served_pickup_point_target_idxs |-> np_array([p \in W_PickupPoints |-> 0]),
      served_pickup_point_remaining_times |-> np_array([p \in W_PickupPoints |-> 0]) ]

\* the state after Warehouse() was constructed
W_Init ==
    /\ ContinuousInit
    /\ warehouse = W_Constructed
    /\ warehouse_returned = [ call |-> "__init__" ]
    /\ np_random = 0
    /\ instance = NoInstance

\* Warehouse.reset.  reset leaves the bodies of an earlier reset in the world;
\* the model follows an instance through its first reset only.
Warehouse_reset ==
    /\ warehouse.agent_bodies = << >>
    /\ \E draw \in W_RandomRequests(W_PickupPoints, W_NUM_REQUESTS) :
       \E availabilities \in { np_array([a \in W_Agents |-> 1]) } :
           /\ warehouse' =
                  [ agent_bodies |-> np_array([a \in W_Agents |->
                        [position |-> W_AgentInitialPositions[a],
                         linearVelocity |-> ZeroVec]]),
                    agent_positions |-> W_AgentInitialPositions,
                    agent_availabilities |-> availabilities,
                    pickup_point_positions |-> W_PickupPointPositions,
                    delivery_point_positions |-> W_DeliveryPointPositions,
                    waiting_pickup_point_target_idxs |-> np_array([p \in W_PickupPoints |->
                        IF p \in DOMAIN draw THEN draw[p] ELSE -1]),
                    waiting_pickup_point_remaining_times |-> np_array([p \in W_PickupPoints |->
                        IF p \in DOMAIN draw THEN W_MAX_PICKUP_WAIT_TIME ELSE -1]),
                    served_pickup_point_picker_agent_idxs |->
                        np_array([p \in W_PickupPoints |-> -1]),
                    served_pickup_point_target_idxs |->
                        np_array([p \in W_PickupPoints |-> -1]),
                    served_pickup_point_remaining_times |->
                        np_array([p \in W_PickupPoints |-> -1]) ]
           /\ warehouse_returned' =
                  [ call |-> "reset",
                    observations |-> W_Observations(W_AgentInitialPositions, availabilities) ]
    /\ UNCHANGED << continuous_vars, np_random >>

\* Warehouse.reset of an instance nobody drives
W_Reset == Warehouse_reset /\ UNCHANGED instance

\* the rewards step would return if it returned what it computed
W_Rewards_Computed(temp_rewards) == temp_rewards

\* rewards = {f"{i}": 0.0 for i in range(NUM_AGENTS)}: temp_rewards is printed
\* and not returned
W_Rewards(temp_rewards) == np_array([a \in W_Agents |-> 0])

\* dones = {f"{i}": False for i in range(NUM_AGENTS)}; dones["__all__"] = False
W_Dones == [ agents |-> np_array([a \in W_Agents |-> FALSE]), all |-> FALSE ]

\* Warehouse.step(action_dict), every key of action_dict naming a body
Warehouse_step ==
    \E keys \in SUBSET W_Moving :
    \E action_dict \in [keys -> W_Vels] :
        /\ keys \subseteq DOMAIN warehouse.agent_bodies
        /\ \E nb \in W_world_Step(UpdateVelocities(warehouse.agent_bodies, action_dict),
                                  W_Locs) :
           \E inactive \in { W_Inactive(warehouse, nb) } :
           \E draw \in W_RandomRequests(inactive,
                          W_NUM_REQUESTS - W_NUM_PICKUP_POINTS + Cardinality(inactive)) :
           \E w \in { W_Stepped(warehouse, nb, draw) } :
           \E step_locals \in { W_StepLocals(warehouse, nb) } :
               /\ warehouse' = w
               /\ warehouse_returned' =
                      [ call |-> "step",
                        observations |->
                            W_Observations(w.agent_positions, w.agent_availabilities),
                        rewards |-> W_Rewards(step_locals.temp_rewards),
                        dones |-> W_Dones,
                        locals |-> step_locals ]
        /\ UNCHANGED << continuous_vars, np_random >>

\* Warehouse.step of an instance nobody drives
W_Step == Warehouse_step /\ UNCHANGED instance

\* Warehouse.step(action_dict) with a key that names no body: the velocity
\* update raises IndexError before anything was changed
W_StepRaise ==
    /\ \E keys \in SUBSET W_Moving : ~ (keys \subseteq DOMAIN warehouse.agent_bodies)
    /\ warehouse_returned' = [ call |-> "raise" ]
    /\ UNCHANGED warehouse
    /\ UNCHANGED << continuous_vars, np_random, instance >>

W_Next == W_Reset \/ W_Step \/ W_StepRaise

SpecWarehouse == W_Init /\ [][W_Next]_vars

\* ------------------------------------------------- the driver of run.py
\* main constructs the environment, resets it and steps it while not done,
\* done being dones["__all__"] of the last step.  instance.pc is where main
\* stands: before reset ("start"), in the loop ("loop"), past it ("end").
DriverInit ==
    /\ ContinuousInit
    /\ warehouse = W_Constructed
    /\ warehouse_returned = [ call |-> "__init__" ]
    /\ np_random = 0
    /\ instance = [ pc |-> "start", done |-> FALSE ]

\* observations = env.reset(); done = False
DriverReset ==
    /\ instance.pc = "start"
    /\ Warehouse_reset
    /\ instance' = [ pc |-> "loop", done |-> FALSE ]

\* one turn of "while not done": env.step(action_dict), done = dones["__all__"],
\* and the test of the loop's condition that follows
DriverLoop ==
    /\ instance.pc = "loop"
    /\ ~ instance.done
    /\ Warehouse_step
    /\ instance' = [ pc |-> IF warehouse_returned'.dones.all THEN "end" ELSE "loop",
                     done |-> warehouse_returned'.dones.all ]

DriverNext == DriverReset \/ DriverLoop

SpecDriver == DriverInit /\ [][DriverNext]_vars

\* ------------------------------------------------ np.random and its users
\* WarehouseContinuous draws with np.random.choice, the generator of the numpy
\* module that every instance and every other caller of the process shares.
\* The generator is deterministic: what it draws is a function of its state,
\* and a draw moves it to its next state.  Its states are 0 .. GeneratorStates-1.
GeneratorStates == 3
MaxDraws == 4

\* the state after the np.random.choice calls of one reset or step
Advance(g) == (g + 1) % GeneratorStates

\* draws in the order of their rows: -1 for a point that was not chosen
DrawLess(d, e) ==
    LET val(f, p) == IF p \in DOMAIN f THEN f[p] ELSE -1
    IN  \E p \in PickupPoints :
            /\ val(d, p) < val(e, p)
            /\ \A q \in PickupPoints : q < p => val(d, q) = val(e, q)

\* np.random.choice in generator state g: one of the draws it can make
np_random_choice(g, draws) ==
    CHOOSE d \in draws :
        Cardinality({ e \in draws : DrawLess(e, d) }) = g % Cardinality(draws)

\* the request placement of a reset that draws in generator state g
Placement(g) ==
    Regenerate([p \in PickupPoints |-> -1], [p \in PickupPoints |-> -1],
               np_random_choice(g, RandomRequests(PickupPoints, NUM_REQUESTS)))

\* WarehouseContinuous.__init__ in generator state g, and the bookkeeping of
\* the instance's calls: seed_state is the state np.random was in, draws
\* counts the resets and steps of the instance, trajectory lists the requests
\* of its observations since its last reset and previous those of the episode
\* before
InstanceConstructed(g) ==
    [ episode_time |-> 0,
      pickup_point_targets |-> np_array([p \in PickupPoints |-> 0]),
      pickup_point_timers |-> np_array([p \in PickupPoints |-> 0]),
      returned |-> "__init__",
      seed_state |-> g,
      draws |-> 0,
      trajectory |-> << >>,
      previous |-> << >> ]

\* a process in which np.random is in some state and an instance was constructed
InitRandom ==
    /\ ContinuousInit
    /\ warehouse = NoWarehouse
    /\ warehouse_returned = NoWarehouse
    /\ np_random \in 0 .. GeneratorStates - 1
    /\ instance = InstanceConstructed(np_random)

\* instance.reset(): reset takes no seed and does not seed np.random
InstanceReset ==
    /\ instance.draws < MaxDraws
    /\ \E fresh \in { Placement(np_random) } :
           instance' =
               [ instance EXCEPT
                   !.episode_time = 0,
                   !.pickup_point_targets = fresh.targets,
                   !.pickup_point_timers = fresh.timers,
                   !.returned = "reset",
                   !.draws = @ + 1,
                   !.trajectory = << fresh.targets >>,
                   !.previous = instance.trajectory ]
    /\ np_random' = Advance(np_random)
    /\ UNCHANGED << continuous_vars, warehouse, warehouse_returned >>

\* instance.step({}) after its reset: the bodies rest at the initial
\* positions, where no agent is near a pickup point
InstanceStep ==
    /\ instance.returned \in { "reset", "step" }
    /\ instance.draws < MaxDraws
    /\ \E positions \in { np_array([a \in Agents |-> AGENT_INITIAL_POSITIONS[a + 1]]) } :
       \E exp \in { RemoveExpired(instance.pickup_point_targets,
                                  instance.pickup_point_timers) } :
       \E pick \in { DetectPickups(positions,
                                   PickupPointPositionsOf(PICKUP_RACKS_ARRANGEMENT),
                                   [a \in Agents |-> -1], exp.targets, exp.timers) } :
       \E draw \in { np_random_choice(np_random, RegenerationDraws(pick.targets)) } :
       \E regen \in { Regenerate(pick.targets, pick.timers, draw) } :
           instance' =
               [ instance EXCEPT
                   !.episode_time = @ + 1,
                   !.pickup_point_targets = regen.targets,
                   !.pickup_point_timers = regen.timers,
                   !.returned = "step",
                   !.draws = @ + 1,
                   !.trajectory = Append(@, regen.targets) ]
    /\ np_random' = Advance(np_random)
    /\ UNCHANGED << continuous_vars, warehouse, warehouse_returned >>

\* a reset or a step of another WarehouseContinuous instance of the process,
\* or any other call of np.random: the generator moves on
OtherDraw ==
    /\ instance.draws < MaxDraws
    /\ np_random' = Advance(np_random)
    /\ UNCHANGED << continuous_vars, warehouse, warehouse_returned, instance >>

NextRandom == InstanceReset \/ InstanceStep \/ OtherDraw

SpecRandom == InitRandom /\ [][NextRandom]_vars

\* ------------------------------------------------------- configurations
\* The configuration of WarehouseContinuous is the constants of its module.
\* Configurations are the values of four of them that an instance is built
\* with here, the other constants being as above: the number of requests, the
\* length of AGENT_INITIAL_POSITIONS, the radius and the pickup tolerance.
Configurations ==
    [ NUM_REQUESTS : 0 .. NUM_PICKUP_POINTS + 1,
      AGENT_INITIAL_POSITIONS : NUM_AGENTS - 1 .. NUM_AGENTS + 1,
      AGENT_RADIUS : { -AGENT_RADIUS, 0, AGENT_RADIUS },
      PICKUP_POSITION_TOLERANCE :
          { -PICKUP_POSITION_TOLERANCE, 0, PICKUP_POSITION_TOLERANCE } ]

\* the module was loaded with a configuration; no instance was constructed
InitConfig ==
    /\ ContinuousInit
    /\ warehouse = NoWarehouse
    /\ warehouse_returned = NoWarehouse
    /\ np_random = 0
    /\ instance \in { [ configuration |-> c, returned |-> "module" ] :
                        c \in Configurations }

\* WarehouseContinuous(): __init__ builds the world and arrays of zeros of
\* NUM_AGENTS, NUM_DELIVERY_POINTS and NUM_PICKUP_POINTS rows, and tests nothing
Construct ==
    /\ instance.returned = "module"
    /\ instance' = [instance EXCEPT !.returned = "__init__"]
    /\ UNCHANGED << continuous_vars, warehouse, warehouse_returned, np_random >>

\* what reset does under the configuration c: the engine is given the radius
\* and may refuse one that is not positive; np.random.choice raises ValueError
\* for a sample larger than the population; the observation of agent i reads
\* row i of the positions
ResetOutcomes(c) ==
    LET engine == IF c.AGENT_RADIUS <= 0 THEN { "b2 error" } ELSE {}
        rest ==
            IF \/ c.NUM_REQUESTS > NUM_PICKUP_POINTS
               \/ c.NUM_REQUESTS > 4 * ((AREA_DIMENSION_M - 40) \div 10)
            THEN "ValueError"
            ELSE IF c.AGENT_INITIAL_POSITIONS < NUM_AGENTS
                 THEN "IndexError"
                 ELSE "reset"
    IN  engine \cup { rest }

\* instance.reset() of an instance built under a configuration
ConfigReset ==
    /\ instance.returned = "__init__"
    /\ \E outcome \in ResetOutcomes(instance.configuration) :
           instance' = [instance EXCEPT !.returned = outcome]
    /\ UNCHANGED << continuous_vars, warehouse, warehouse_returned, np_random >>

NextConfig == Construct \/ ConfigReset

SpecConfig == InitConfig /\ [][NextConfig]_vars

\* ---------------------------------------------------- WarehouseGridSolver
\* The greedy solver of baselines/grid_greedy.py.  The grid environment that
\* feeds it is not modelled: an observation is an input, any availability for
\* every agent in one of the layouts below.  instance is the solver with the
\* observations of its last call and the action_dict it returned.
MaxSolverAgents == 3
MaxSolverRequests == 3

SolverConfigurations ==
    [ num_agents : 1 .. MaxSolverAgents, num_requests : 1 .. MaxSolverRequests ]

\* observations[agent_id] for every agent: the agents stand in a row, at one
\* of two heights, the requests in a column, and a carried request is
\* delivered at one cell
SolverObservations(num_agents, num_requests) ==
    { [i \in 0 .. num_agents - 1 |->
          [ self_availability |-> np_array([k \in {0} |-> availabilities[i]]),
            self_position |-> << i, height >>,
            self_delivery_target |-> << 2, 0 >>,
            requests |-> np_array([j \in 0 .. num_requests - 1 |-> << 1, j + 1 >>]) ]] :
        availabilities \in [0 .. num_agents - 1 -> { 0, 1 }], height \in { 0, 3 } }

\* WarehouseGridSolver.__init__
SolverConstructed(c) ==
    [ num_agents |-> c.num_agents,
      num_requests |-> c.num_requests,
      agent_pickup_targets |-> np_array([i \in 0 .. c.num_agents - 1 |-> -1]),
      observations |-> << >>,
      action_dict |-> << >>,
      returned |-> "__init__" ]

\* FreeRequests without the test "j not in agent_pickup_targets"
FreeRequests_All(agent_pickup_targets, num_requests) ==
    0 .. num_requests - 1

\* the j of "for j in range(num_requests): if j not in agent_pickup_targets"
FreeRequests(agent_pickup_targets, num_requests) ==
    { j \in 0 .. num_requests - 1 :
        \A k \in DOMAIN agent_pickup_targets : agent_pickup_targets[k] # j }

\* np.clip(x, -1, 1)
np_clip(x) == IF x < -1 THEN -1 ELSE IF x > 1 THEN 1 ELSE x

\* np.random.uniform() < ROTATE_ACTION_PROB in generator state g
RotateDraw(g) == g = 0

\* the body of "for i in range(num_agents)" from agent i on: the pickup
\* targets, the actions and the generator state after the last agent
RECURSIVE SolverLoop(_, _, _, _, _, _)
SolverLoop(i, solver, obs, targets, actions, g) ==
    IF i = solver.num_agents
    THEN [ agent_pickup_targets |-> targets, action_dict |-> actions, np_random |-> g ]
    ELSE LET free == FreeRequests(targets, solver.num_requests)
             t1 == IF obs[i].self_availability[0] = 0
                   THEN [targets EXCEPT ![i] = -1]
                   ELSE IF targets[i] = -1 /\ free # {}
                        THEN [targets EXCEPT
                                 ![i] = CHOOSE j \in free : \A k \in free : j <= k]
                        ELSE targets
             target == IF obs[i].self_availability[0] = 0
                       THEN obs[i].self_delivery_target
                       ELSE obs[i].requests[Wrap(t1[i], solver.num_requests)]
             idx0 == np_clip(target[1] - obs[i].self_position[1]) + 1
             idx1 == np_clip(target[2] - obs[i].self_position[2]) + 1
             r0 == IF RotateDraw(g) THEN (idx0 + 1) % 3 ELSE idx0
             r1 == IF RotateDraw(Advance(g)) THEN (idx1 + 1) % 3 ELSE idx1
         IN  SolverLoop(i + 1, solver, obs, t1,
                        np_array(actions @@ [k \in {i} |-> r0 * 3 + r1]),
                        Advance(Advance(g)))

\* a process in which np.random is in some state and a solver was constructed
InitSolver ==
    /\ ContinuousInit
    /\ warehouse = NoWarehouse
    /\ warehouse_returned = NoWarehouse
    /\ np_random \in 0 .. GeneratorStates - 1
    /\ instance \in { SolverConstructed(c) : c \in SolverConfigurations }

\* WarehouseGridSolver.compute_action(observations)
ComputeAction ==
    /\ \E obs \in SolverObservations(instance.num_agents, instance.num_requests) :
       \E out \in { SolverLoop(0, instance, obs, instance.agent_pickup_targets,
                               << >>, np_random) } :
           /\ instance' = [ instance EXCEPT
                              !.agent_pickup_targets = out.agent_pickup_targets,
                              !.observations = obs,
                              !.action_dict = out.action_dict,
                              !.returned = "compute_action" ]
           /\ np_random' = out.np_random
    /\ UNCHANGED << continuous_vars, warehouse, warehouse_returned >>

\* the environment or any other caller draws from np.random between two calls
OtherUniform ==
    /\ np_random' = Advance(np_random)
    /\ UNCHANGED << continuous_vars, warehouse, warehouse_returned, instance >>

NextSolver == ComputeAction \/ OtherUniform

SpecSolver == InitSolver /\ [][NextSolver]_vars

\* ------------------------------------------------------------------ claims
\* C1: after reset and after every step that returns, the number of pickup
\* points in state Waiting (target > -1) is exactly NUM_REQUESTS.
C1_WaitingCount ==
    returned \in { "reset", "step" } =>
        Cardinality({ p \in PickupPoints : pickup_point_targets[p] > -1 }) = NUM_REQUESTS

\* a tick in which an agent claimed a point and the regeneration drew a point
C1_Witness ==
    /\ returned = "step"
    /\ \E a \in Agents : locals.mask[a]
    /\ locals.regenerated # {}

\* C2: after reset and after every step that returns, every agent holds one
\* delivery target, which is -1 (none) or an id in 0 .. NUM_DELIVERY_POINTS - 1
\* that has a delivery-point position.
C2_AgentTargetValid ==
    returned \in { "reset", "step" } =>
        /\ DOMAIN agent_delivery_targets = Agents
        /\ \A a \in Agents :
               \/ agent_delivery_targets[a] = -1
               \/ /\ agent_delivery_targets[a] \in 0 .. NUM_DELIVERY_POINTS - 1
                  /\ agent_delivery_targets[a] \in DOMAIN delivery_point_positions

\* a tick after which one agent carries a target while the other one has
\* delivered in this tick
C2_Witness ==
    /\ returned = "step"
    /\ \E a \in Agents : locals.delivered[a] /\ agent_delivery_targets[a] = -1
    /\ \E a \in Agents : agent_delivery_targets[a] > -1

\* C3: after reset and after every step that returns, the target of every
\* Waiting pickup point is an id in 0 .. NUM_DELIVERY_POINTS - 1 that has a
\* delivery-point position.
C3_WaitingTargetValid ==
    returned \in { "reset", "step" } =>
        \A p \in PickupPoints :
            pickup_point_targets[p] > -1 =>
                /\ pickup_point_targets[p] \in 0 .. NUM_DELIVERY_POINTS - 1
                /\ pickup_point_targets[p] \in DOMAIN delivery_point_positions

\* a tick whose regeneration gave a point the last delivery id
C3_Witness ==
    /\ returned = "step"
    /\ \E p \in locals.regenerated : pickup_point_targets[p] = NUM_DELIVERY_POINTS - 1

\* C4: when reset returns, the tick count is 0, every agent is at its initial
\* position without a delivery target, exactly NUM_REQUESTS pickup points are
\* Waiting with timer MAX_PICKUP_WAIT_TIME, and every other point is Inactive
\* (target -1, timer -1), whatever the state reset was called in.
C4_ResetPostcondition ==
    returned = "reset" =>
        /\ episode_time = 0
        /\ \A a \in Agents :
               /\ agent_positions[a] = AGENT_INITIAL_POSITIONS[a + 1]
               /\ agent_bodies[a].position = AGENT_INITIAL_POSITIONS[a + 1]
               /\ agent_delivery_targets[a] = -1
               /\ observations[a].self_availability[0] = 1
        /\ Cardinality({ p \in PickupPoints : pickup_point_targets[p] > -1 }) = NUM_REQUESTS
        /\ \A p \in PickupPoints :
               IF pickup_point_targets[p] > -1
               THEN pickup_point_timers[p] = MAX_PICKUP_WAIT_TIME
               ELSE pickup_point_targets[p] = -1 /\ pickup_point_timers[p] = -1

\* reset called after the episode ended, in whose last tick an agent was
\* rewarded (rewards and dones are what the last step returned)
C4_Witness ==
    /\ returned = "reset"
    /\ dones # << >>
    /\ dones.all
    /\ \E a \in Agents : rewards[a] > 0

\* C5: when two available agents are both within pickup tolerance of the same
\* Waiting pickup point in one tick, the agent with the lower id gets the
\* delivery target and the pickup reward, and the other agent gets neither.
C5_LowerIdClaims ==
    returned = "step" =>
        \A a, b \in Agents : \A p \in PickupPoints :
            ( /\ a < b
              /\ Within(pickup_point_positions[p], agent_positions[a], PICKUP_POSITION_TOLERANCE)
              /\ Within(pickup_point_positions[p], agent_positions[b], PICKUP_POSITION_TOLERANCE)
              /\ locals.candidates[a] = p /\ locals.candidates[b] = p
              /\ locals.was_available[a] /\ locals.was_available[b]
              /\ locals.candidate_waiting[a] )
            => /\ rewards[a] >= PICKUP_REWARD
               /\ rewards[b] = 0
               /\ agent_delivery_targets[b] = -1

\* C7: a claim happens only when the point is Waiting and the agent has no
\* delivery target.  In a tick, an agent that carries a delivery target and is
\* within pickup tolerance of a Waiting point keeps that target (or delivers
\* it), gets no pickup reward, and the point stays Waiting with its target
\* unless another agent claims it; an agent within tolerance of only an
\* Inactive point keeps what it has and gets no pickup reward; and an agent
\* goes from no target to a target only within tolerance of a Waiting point.
C7_ClaimOnlyWhenFree ==
    [][ returned' = "step" =>
          \A a \in Agents :
              LET l == locals'
                  c == l.candidates[a]
                  after_delivery ==
                      IF l.delivered[a] THEN -1 ELSE agent_delivery_targets[a]
                  delivery_reward == IF l.delivered[a] THEN DELIVERY_REWARD ELSE 0
              IN  /\ ( l.in_range[a] /\ agent_delivery_targets[a] > -1
                         /\ l.candidate_waiting[a] )
                      => /\ agent_delivery_targets'[a] = after_delivery
                         /\ rewards'[a] = delivery_reward
                         /\ (\A b \in Agents : ~(l.mask[b] /\ l.candidates[b] = c))
                                => /\ pickup_point_targets'[c] = pickup_point_targets[c]
                                   /\ pickup_point_timers'[c] = pickup_point_timers[c] - 1
                  /\ ( l.in_range[a] /\ ~l.candidate_waiting[a] )
                      => /\ agent_delivery_targets'[a] = after_delivery
                         /\ rewards'[a] = delivery_reward
                  /\ ( agent_delivery_targets[a] = -1 /\ agent_delivery_targets'[a] > -1 )
                      => /\ l.in_range[a]
                         /\ pickup_point_targets[c] > -1
                         /\ pickup_point_timers[c] > 1
                         /\ agent_delivery_targets'[a] = pickup_point_targets[c]
      ]_vars

\* a tick in which a carrying agent stood within tolerance of a Waiting point
C7_Witness ==
    /\ returned = "step"
    /\ \E a \in Agents :
           /\ locals.in_range[a]
           /\ ~locals.was_available[a]
           /\ locals.candidate_waiting[a]
           /\ agent_delivery_targets[a] > -1
           /\ pickup_point_targets[locals.candidates[a]] > -1

\* C8: in the observation step returns for agent i, self_availability is 1 iff
\* agent i has no delivery target at the end of the tick (0 otherwise) and
\* self_delivery_target is the position of that target, the zero vector if
\* there is none; in the tick agent i claims a point whose target is D without
\* delivering, the observation shows availability 0 and the position of D.
C8_SelfFields ==
    [][ returned' = "step" =>
          \A i \in Agents :
              LET o == observations'[i]
                  t == agent_delivery_targets'[i]
                  P == locals'.candidates[i]
              IN  /\ DOMAIN o.self_availability = { 0 }
                  /\ o.self_availability[0] = IF t = -1 THEN 1 ELSE 0
                  /\ o.self_delivery_target =
                         IF t = -1 THEN ZeroVec ELSE delivery_point_positions'[t]
                  /\ ( locals'.mask[i] /\ ~locals'.delivered[i] )
                      => /\ o.self_availability[0] = 0
                         /\ o.self_delivery_target =
                                delivery_point_positions[pickup_point_targets[P]]
      ]_vars

\* a tick in which agent 0 claimed a point and did not deliver
C8_Witness ==
    /\ returned = "step"
    /\ locals.mask[0]
    /\ ~locals.delivered[0]
    /\ observations[0].self_availability[0] = 0
    /\ observations[0].self_delivery_target # ZeroVec

\* C9: in the observation step and reset return for agent i, other_positions,
\* other_availabilities and other_delivery_targets list the agents j # i in
\* ascending id order; the entry of agent j in other_delivery_targets is the
\* position of agent j's delivery target, the zero vector if it has none.
C9_OtherFields ==
    returned \in { "reset", "step" } =>
        \A i \in Agents :
            LET o == observations[i]
                other(k) == IF k < i THEN k ELSE k + 1
                Others == 0 .. NUM_AGENTS - 2
            IN  /\ DOMAIN o.other_positions = Others
                /\ DOMAIN o.other_availabilities = Others
                /\ DOMAIN o.other_delivery_targets = Others
                /\ \A k \in Others :
                       /\ o.other_positions[k] = agent_positions[other(k)]
                       /\ o.other_availabilities[k] =
                              IF agent_delivery_targets[other(k)] = -1 THEN 1 ELSE 0
                       /\ o.other_delivery_targets[k] =
                              IF agent_delivery_targets[other(k)] = -1
                              THEN ZeroVec
                              ELSE delivery_point_positions[agent_delivery_targets[other(k)]]

\* C10: the requests field of every observation reset and step return has
\* NUM_REQUESTS rows, one for each pickup point Waiting at the end of the tick:
\* the point's position followed by the position of its target delivery point;
\* all the agents get the same rows in the same order.
C10_Requests ==
    returned \in { "reset", "step" } =>
        \A i \in Agents :
            LET r == observations[i].requests
                Waiting == { p \in PickupPoints : pickup_point_targets[p] > -1 }
                row(p) == pickup_point_positions[p]
                              \o delivery_point_positions[pickup_point_targets[p]]
            IN  /\ DOMAIN r = 0 .. NUM_REQUESTS - 1
                /\ { r[k] : k \in DOMAIN r } = { row(p) : p \in Waiting }
                /\ \A p \in Waiting : Cardinality({ k \in DOMAIN r : r[k] = row(p) }) = 1
                /\ r = observations[0].requests

\* a tick in which a request expired and the regenerated points are in the rows
C10_Witness ==
    /\ returned = "step"
    /\ ~(\E a \in Agents : locals.mask[a])
    /\ locals.regenerated # {}
    /\ \A p \in locals.regenerated :
           \E k \in DOMAIN observations[1].requests :
               observations[1].requests[k] =
                   pickup_point_positions[p]
                       \o delivery_point_positions[pickup_point_targets[p]]

\* C11: every per-agent observation returned by reset and step is a member of
\* the declared observation_space: the seven fields are present and not None,
\* the availabilities are binary and the other_* rows number NUM_AGENTS - 1.
\* Stated for the observations Warehouse.reset and Warehouse.step return.
C11_ObservationInSpace ==
    warehouse_returned.call \in { "reset", "step" } =>
        \A i \in DOMAIN warehouse_returned.observations :
            LET o == warehouse_returned.observations[i]
            IN  /\ DOMAIN o = { "self_position", "self_availability",
                                "self_delivery_target", "other_positions",
                                "other_availabilities", "other_delivery_targets",
                                "requests" }
                /\ o.self_availability[0] \in { 0, 1 }
                /\ Size(o.other_positions) = W_NUM_AGENTS - 1
                /\ Size(o.other_availabilities) = W_NUM_AGENTS - 1
                /\ \A k \in DOMAIN o.other_availabilities :
                       o.other_availabilities[k] \in { 0, 1 }
                /\ o.self_delivery_target # None
                /\ o.other_delivery_targets # None
                /\ o.requests # None

\* C12: dones["__all__"] of the n-th step call since the last reset is true
\* exactly when n >= MAX_EPISODE_TIME: reset puts the tick counter to 0, every
\* step adds one to it and reports done from the counter it has just raised.
C12_EpisodeEnd ==
    [][ /\ returned' = "reset" => episode_time' = 0
        /\ returned' = "step" =>
               /\ episode_time' = episode_time + 1
               /\ dones'.all <=> (episode_time' >= MAX_EPISODE_TIME) ]_vars

\* the step that reaches MAX_EPISODE_TIME reports the episode done
C12_Witness ==
    /\ returned = "step"
    /\ episode_time = MAX_EPISODE_TIME
    /\ dones.all

\* C13: the reward step returns to an agent is its number of collisions times
\* the collision penalty, plus the pickup base reward and the time bonus of
\* the point's timer read before it was freed when the agent claimed in this
\* tick, plus the delivery reward when it delivered.  Stated for the steps of
\* Warehouse after its reset; Warehouse.step detects no delivery.
C13_RewardFormula ==
    warehouse_returned.call = "step" /\ warehouse.agent_bodies # << >> =>
        \A a \in W_Agents :
            LET l == warehouse_returned.locals
                claimed == { pair[2] : pair \in { q \in l.pairs : q[1] = a } }
                collisions == l.agent_eachother_collision_counts[a] * COLLISION_REWARD
            IN  IF claimed = {}
                THEN warehouse_returned.rewards[a] = collisions
                ELSE \E p \in claimed :
                         warehouse_returned.rewards[a] =
                             collisions + PICKUP_BASE_REWARD
                                 + l.remaining_times[p] * PICKUP_TIME_REWARD_MULTIPLIER

\* C14: a request nobody claims expires exactly MAX_PICKUP_WAIT_TIME ticks
\* after its creation.  Its timer starts at MAX_PICKUP_WAIT_TIME, every tick in
\* which it is not claimed takes one off, and the tick that brings the timer to
\* 0 expires it: the point is Inactive unless the regeneration of the same tick
\* draws it again, no agent claims it, the rewards and the delivery targets
\* change for claiming and delivering agents only, and NUM_REQUESTS points are
\* Waiting after the step.
C14_Expiry ==
    [][ returned' = "step" =>
        LET claimed == { locals'.candidates[a] : a \in { b \in Agents : locals'.mask[b] } }
        IN  /\ \A p \in PickupPoints :
                   pickup_point_targets'[p] > -1 /\ pickup_point_targets[p] = -1
                       => pickup_point_timers'[p] = MAX_PICKUP_WAIT_TIME
            /\ \A p \in PickupPoints :
                   /\ pickup_point_targets[p] > -1
                   /\ pickup_point_timers[p] > 1
                   /\ p \notin claimed
                   => /\ pickup_point_targets'[p] = pickup_point_targets[p]
                      /\ pickup_point_timers'[p] = pickup_point_timers[p] - 1
            /\ \A p \in PickupPoints :
                   pickup_point_targets[p] > -1 /\ pickup_point_timers[p] = 1
                   => /\ p \notin claimed
                      /\ IF p \in locals'.regenerated
                         THEN pickup_point_timers'[p] = MAX_PICKUP_WAIT_TIME
                         ELSE pickup_point_targets'[p] = -1 /\ pickup_point_timers'[p] = -1
                      /\ \A a \in Agents :
                             ~ locals'.mask[a] /\ ~ locals'.delivered[a]
                                 => /\ rewards'[a] = 0
                                    /\ agent_delivery_targets'[a] = agent_delivery_targets[a]
                      /\ Cardinality({ q \in PickupPoints : pickup_point_targets'[q] > -1 })
                             = NUM_REQUESTS ]_vars

\* a tick in which nobody claimed or delivered anything and nobody was
\* rewarded, and yet a request was regenerated: it replaces one that expired
C14_Witness ==
    /\ returned = "step"
    /\ \A a \in Agents : ~ locals.mask[a] /\ ~ locals.delivered[a] /\ rewards[a] = 0
    /\ locals.regenerated # {}
    /\ Cardinality({ q \in PickupPoints : pickup_point_targets[q] > -1 }) = NUM_REQUESTS

\* C15: the proximity tests are strict.  An available agent that a tick leaves
\* at exactly the pickup tolerance from a Waiting point does not claim it, and
\* one it leaves nearer does; an agent carrying a request that the tick leaves
\* at exactly the delivery tolerance from its target does not deliver, and one
\* it leaves nearer does.
C15_StrictProximity ==
    [][ returned' = "step" =>
        \A a \in Agents :
            /\ \A p \in PickupPoints :
                   /\ agent_delivery_targets[a] = -1
                   /\ pickup_point_targets[p] > -1
                   /\ pickup_point_timers[p] > 1
                   => /\ Dist2(pickup_point_positions[p], agent_positions'[a])
                             = PICKUP_POSITION_TOLERANCE * PICKUP_POSITION_TOLERANCE
                         => /\ ~ locals'.mask[a]
                            /\ rewards'[a] = 0
                            /\ agent_delivery_targets'[a] = -1
                      /\ Dist2(pickup_point_positions[p], agent_positions'[a])
                             < PICKUP_POSITION_TOLERANCE * PICKUP_POSITION_TOLERANCE
                         => /\ locals'.mask[a]
                            /\ locals'.candidates[a] = p
                            /\ rewards'[a] >= PICKUP_REWARD
            /\ agent_delivery_targets[a] > -1
               => LET d == delivery_point_positions[agent_delivery_targets[a]]
                  IN  /\ Dist2(d, agent_positions'[a])
                             = DELIVERY_POSITION_TOLERANCE * DELIVERY_POSITION_TOLERANCE
                         => /\ ~ locals'.delivered[a]
                            /\ rewards'[a] = 0
                            /\ agent_delivery_targets'[a] = agent_delivery_targets[a]
                      /\ Dist2(d, agent_positions'[a])
                             < DELIVERY_POSITION_TOLERANCE * DELIVERY_POSITION_TOLERANCE
                         => /\ locals'.delivered[a]
                            /\ rewards'[a] = DELIVERY_REWARD
                            /\ agent_delivery_targets'[a] = -1 ]_vars

\* after a tick one agent is still available at exactly the pickup tolerance
\* from a point that was Waiting through the tick, and another still carries
\* its request at exactly the delivery tolerance from its target
C15_Witness ==
    /\ returned = "step"
    /\ \E a \in Agents : \E p \in PickupPoints :
           /\ agent_delivery_targets[a] = -1
           /\ pickup_point_targets[p] > -1
           /\ pickup_point_timers[p] < MAX_PICKUP_WAIT_TIME
           /\ Dist2(pickup_point_positions[p], agent_positions[a])
                  = PICKUP_POSITION_TOLERANCE * PICKUP_POSITION_TOLERANCE
    /\ \E b \in Agents :
           /\ agent_delivery_targets[b] > -1
           /\ ~ locals.mask[b]
           /\ Dist2(delivery_point_positions[agent_delivery_targets[b]], agent_positions[b])
                  = DELIVERY_POSITION_TOLERANCE * DELIVERY_POSITION_TOLERANCE

\* C16: in a tick an agent delivers exactly when it has a delivery target D,
\* the one it carried into the tick or the one it claimed in it, and the tick
\* leaves it nearer to D's position than the delivery tolerance.  Then its
\* target is cleared and DELIVERY_REWARD is added to its reward.  An agent
\* without a target, or near a delivery point that is not its target, does
\* not deliver: its target stays and it gets no delivery reward.
C16_DeliveryRule ==
    [][ returned' = "step" =>
        \A a \in Agents :
            LET D == IF locals'.mask[a]
                     THEN pickup_point_targets[locals'.candidates[a]]
                     ELSE agent_delivery_targets[a]
                pickup == IF locals'.mask[a] THEN PICKUP_REWARD ELSE 0
                delivers ==
                    /\ D > -1
                    /\ Within(delivery_point_positions[D], agent_positions'[a],
                              DELIVERY_POSITION_TOLERANCE)
            IN  /\ locals'.delivered[a] <=> delivers
                /\ delivers => /\ agent_delivery_targets'[a] = -1
                               /\ rewards'[a] = pickup + DELIVERY_REWARD
                /\ ~ delivers => /\ agent_delivery_targets'[a] = D
                                 /\ rewards'[a] = pickup ]_vars

\* after a tick an agent is within the delivery tolerance of a delivery point
\* that is not its target: it still carries its request and got no reward
C16_Witness ==
    /\ returned = "step"
    /\ \E a \in Agents : \E d \in DeliveryPoints :
           /\ agent_delivery_targets[a] > -1
           /\ agent_delivery_targets[a] # d
           /\ Within(delivery_point_positions[d], agent_positions[a],
                     DELIVERY_POSITION_TOLERANCE)
           /\ ~ locals.delivered[a]
           /\ rewards[a] = 0

\* C19: whatever action is passed to step, the velocity the tick gives to an
\* agent's body has both components within [-1, 1] m/s, and the tick returns
\* its observations, rewards and dones.
C19_VelocityClamped ==
    returned = "step" =>
        /\ \A a \in DOMAIN agent_bodies : \A k \in 1 .. 2 :
               agent_bodies[a].linearVelocity[k] \in -1 .. 1
        /\ DOMAIN observations = Agents
        /\ DOMAIN rewards = Agents
        /\ DOMAIN dones.agents = Agents

\* C17: two episodes that begin with reset given the same seed and are stepped
\* with the same actions have the same observations tick by tick.  The reset
\* of the code takes no seed, so every reset is given the same (no) seed, and
\* the episodes here are all stepped with the empty action: the requests of
\* an episode's observations are those of the episode before, as far as both go.
C17_SameSeedSameTrajectory ==
    \A k \in 1 .. Len(instance.trajectory) :
        k <= Len(instance.previous) => instance.trajectory[k] = instance.previous[k]

\* C18: the draws of an instance come from a generator the instance owns, so
\* that calls of another instance or of any other user of np.random between
\* its calls do not change them: the placement a reset returns is the one a
\* generator seeded at the instance's construction and advanced by the
\* instance's own calls alone would draw.
C18_InstanceOwnedDraws ==
    instance.returned = "reset" =>
        instance.pickup_point_targets =
            Placement((instance.seed_state + instance.draws - 1) % GeneratorStates).targets

\* C20: a bad configuration is rejected at construction: an instance exists
\* only if the requests are no more than the pickup points, the list of
\* initial positions has one entry per agent, and the radius and the tolerance
\* are positive.
C20_RejectedAtConstruction ==
    instance.returned = "__init__" =>
        /\ instance.configuration.NUM_REQUESTS <= NUM_PICKUP_POINTS
        /\ instance.configuration.AGENT_INITIAL_POSITIONS = NUM_AGENTS
        /\ instance.configuration.AGENT_RADIUS > 0
        /\ instance.configuration.PICKUP_POSITION_TOLERANCE > 0

\* C21: in every step the regeneration picks as many pickup points as the tick
\* freed by expiry and by claims.  The picked points are Inactive after the
\* expiry and the claims of the tick (one freed in the tick may be among
\* them), each gets the timer MAX_PICKUP_WAIT_TIME and a delivery target, the
\* targets of the batch are pairwise distinct, and a point that is not picked
\* keeps the target and the timer the expiry and the claims left it.
C21_Regeneration ==
    [][ returned' = "step" =>
        LET expired == { p \in PickupPoints :
                           pickup_point_targets[p] > -1 /\ pickup_point_timers[p] = 1 }
            claimed == { locals'.candidates[a] : a \in { b \in Agents : locals'.mask[b] } }
            freed == expired \cup claimed
            picked == locals'.regenerated
        IN  /\ Cardinality(picked) = Cardinality(freed)
            /\ \A p \in picked : pickup_point_targets[p] = -1 \/ p \in freed
            /\ \A p \in picked :
                   /\ pickup_point_timers'[p] = MAX_PICKUP_WAIT_TIME
                   /\ pickup_point_targets'[p] \in DeliveryPoints
            /\ \A p, q \in picked :
                   p # q => pickup_point_targets'[p] # pickup_point_targets'[q]
            /\ \A p \in PickupPoints \ picked :
                   IF pickup_point_targets[p] = -1 \/ p \in freed
                   THEN pickup_point_targets'[p] = -1 /\ pickup_point_timers'[p] = -1
                   ELSE /\ pickup_point_targets'[p] = pickup_point_targets[p]
                        /\ pickup_point_timers'[p] = pickup_point_timers[p] - 1 ]_vars

\* a tick whose regeneration picked two points, one of them the point an
\* agent claimed in this tick
C21_Witness ==
    /\ returned = "step"
    /\ Cardinality(locals.regenerated) = 2
    /\ \E a \in Agents : locals.mask[a] /\ locals.candidates[a] \in locals.regenerated

\* C22: across one step a pickup point that was Waiting with timer t and
\* target d is still Waiting with timer t - 1 and target d, unless the step
\* freed it: by expiry, when t - 1 = 0, or by the claim of an agent that was
\* available and is within the pickup tolerance.  A freed point is Inactive
\* after the step, or Waiting with the full timer when the regeneration
\* picked it again.
C22_WaitingPointLifecycle ==
    [][ returned' = "step" =>
        \A p \in PickupPoints :
            pickup_point_targets[p] > -1 =>
                LET claimed ==
                        \E a \in Agents :
                            /\ agent_delivery_targets[a] = -1
                            /\ Within(pickup_point_positions[p], agent_positions'[a],
                                      PICKUP_POSITION_TOLERANCE)
                            /\ locals'.mask[a]
                            /\ locals'.candidates[a] = p
                IN  IF pickup_point_timers[p] = 1 \/ claimed
                    THEN IF p \in locals'.regenerated
                         THEN /\ pickup_point_targets'[p] > -1
                              /\ pickup_point_timers'[p] = MAX_PICKUP_WAIT_TIME
                         ELSE /\ pickup_point_targets'[p] = -1
                              /\ pickup_point_timers'[p] = -1
                    ELSE /\ p \notin locals'.regenerated
                         /\ pickup_point_targets'[p] = pickup_point_targets[p]
                         /\ pickup_point_timers'[p] = pickup_point_timers[p] - 1 ]_vars

\* after a tick the point an agent claimed is Inactive, and another point is
\* still Waiting with a timer that has run for two ticks or more
C22_Witness ==
    /\ returned = "step"
    /\ \E a \in Agents :
           /\ locals.mask[a]
           /\ pickup_point_targets[locals.candidates[a]] = -1
           /\ pickup_point_timers[locals.candidates[a]] = -1
    /\ \E q \in PickupPoints :
           /\ pickup_point_targets[q] > -1
           /\ pickup_point_timers[q] <= MAX_PICKUP_WAIT_TIME - 2

\* C23: the expiry runs before the claim detection and the regeneration after
\* it.  A point whose timer reaches 0 in a tick is not claimed in that tick,
\* even by an agent that was available and ends the tick within the pickup
\* tolerance of it: the agent stays available and gets no pickup reward.  A
\* request regenerated in a tick is not claimed in that tick: the point ends
\* the tick Waiting with the full timer, even with an available agent on it.
C23_ExpiryClaimRegenerationOrder ==
    [][ returned' = "step" =>
        /\ \A p \in PickupPoints, a \in Agents :
               /\ pickup_point_targets[p] > -1
               /\ pickup_point_timers[p] = 1
               /\ agent_delivery_targets[a] = -1
               /\ Within(pickup_point_positions[p], agent_positions'[a],
                         PICKUP_POSITION_TOLERANCE)
               => /\ ~ locals'.mask[a]
                  /\ agent_delivery_targets'[a] = -1
                  /\ rewards'[a] = 0
        /\ \A p \in locals'.regenerated :
               /\ pickup_point_targets'[p] > -1
               /\ pickup_point_timers'[p] = MAX_PICKUP_WAIT_TIME
               /\ \A a \in Agents :
                      /\ agent_delivery_targets[a] = -1
                      /\ Within(pickup_point_positions[p], agent_positions'[a],
                                PICKUP_POSITION_TOLERANCE)
                      /\ ( pickup_point_targets[p] = -1 \/ pickup_point_timers[p] = 1 )
                      => /\ agent_delivery_targets'[a] = -1
                         /\ rewards'[a] = 0 ]_vars

\* at the tick that expires the requests created at reset, nobody claims,
\* every request is regenerated, and an agent that was available stands on a
\* regenerated point: it is still available and has no reward
C23_Witness ==
    /\ returned = "step"
    /\ episode_time = MAX_PICKUP_WAIT_TIME
    /\ \A b \in Agents : ~ locals.mask[b]
    /\ Cardinality(locals.regenerated) = NUM_REQUESTS
    /\ \E a \in Agents :
           /\ locals.in_range[a]
           /\ locals.was_available[a]
           /\ locals.candidates[a] \in locals.regenerated
           /\ pickup_point_timers[locals.candidates[a]] = MAX_PICKUP_WAIT_TIME
           /\ agent_delivery_targets[a] = -1
           /\ rewards[a] = 0

\* C24: the claims of a tick are resolved from one snapshot taken after the
\* physics and the expiry.  When several available agents are each within the
\* pickup tolerance of a different Waiting point, every one of them claims in
\* that tick and receives the delivery target its own point had in the
\* snapshot, whatever the order of the agent ids.
C24_SimultaneousClaims ==
    [][ returned' = "step" =>
        \A a, b \in Agents : \A p, q \in PickupPoints :
            /\ a # b /\ p # q
            /\ agent_delivery_targets[a] = -1 /\ agent_delivery_targets[b] = -1
            /\ pickup_point_targets[p] > -1 /\ pickup_point_timers[p] > 1
            /\ pickup_point_targets[q] > -1 /\ pickup_point_timers[q] > 1
            /\ Within(pickup_point_positions[p], agent_positions'[a],
                      PICKUP_POSITION_TOLERANCE)
            /\ Within(pickup_point_positions[q], agent_positions'[b],
                      PICKUP_POSITION_TOLERANCE)
            => /\ locals'.mask[a] /\ locals'.mask[b]
               /\ locals'.candidates[a] = p /\ locals'.candidates[b] = q
               /\ rewards'[a] >= PICKUP_REWARD /\ rewards'[b] >= PICKUP_REWARD
               /\ IF locals'.delivered[a]
                  THEN agent_delivery_targets'[a] = -1
                  ELSE agent_delivery_targets'[a] = pickup_point_targets[p]
               /\ IF locals'.delivered[b]
                  THEN agent_delivery_targets'[b] = -1
                  ELSE agent_delivery_targets'[b] = pickup_point_targets[q] ]_vars

\* both agents claimed in the same tick, each a point of its own, and carry
\* different delivery targets
C24_Witness ==
    /\ returned = "step"
    /\ locals.mask[0] /\ locals.mask[1]
    /\ locals.candidates[0] # locals.candidates[1]
    /\ agent_delivery_targets[0] > -1
    /\ agent_delivery_targets[1] > -1
    /\ agent_delivery_targets[0] # agent_delivery_targets[1]

\* C25: what a step leaves alone.  The expiry and the regeneration change no
\* agent: an agent that neither claims nor delivers in a tick keeps its
\* delivery target, and every agent is where the physics put its body.  The
\* delivery changes no pickup point: a point that the tick neither expires,
\* nor releases to a claim, nor regenerates keeps its target, and its timer
\* apart from the tick's decrement, also when an agent delivers.  The
\* positions of the pickup and delivery points set at reset never change.
C25_StepFrame ==
    [][ returned' = "step" =>
        LET claimed == { locals'.candidates[a] : a \in { b \in Agents : locals'.mask[b] } }
        IN  /\ \A a \in Agents :
                   ~ locals'.mask[a] /\ ~ locals'.delivered[a]
                       => agent_delivery_targets'[a] = agent_delivery_targets[a]
            /\ \A a \in Agents :
                   /\ agent_positions'[a] = agent_bodies'[a].position
                   /\ agent_positions'[a] = VecAdd(agent_bodies[a].position,
                                                   agent_bodies'[a].linearVelocity)
            /\ \A p \in PickupPoints :
                   /\ p \notin claimed
                   /\ p \notin locals'.regenerated
                   /\ ~ ( pickup_point_targets[p] > -1 /\ pickup_point_timers[p] = 1 )
                   => /\ pickup_point_targets'[p] = pickup_point_targets[p]
                      /\ pickup_point_timers'[p] =
                             IF pickup_point_targets[p] > -1
                             THEN pickup_point_timers[p] - 1
                             ELSE pickup_point_timers[p]
            /\ pickup_point_positions' = pickup_point_positions
            /\ delivery_point_positions' = delivery_point_positions ]_vars

\* a tick in which one agent delivered while the other went on carrying, a
\* request was regenerated and another point went on Waiting
C25_Witness ==
    /\ returned = "step"
    /\ \E a, b \in Agents :
           /\ locals.delivered[a]
           /\ ~ locals.delivered[b] /\ ~ locals.mask[b]
           /\ agent_delivery_targets[b] > -1
    /\ locals.regenerated # {}
    /\ \E q \in PickupPoints :
           /\ q \notin locals.regenerated
           /\ pickup_point_targets[q] > -1

\* C26: every per-agent done flag of a step equals dones["__all__"].  Once a
\* step has reported done, every later step reports done until a reset, and
\* such a step still runs: it counts the tick, moves the bodies and takes a
\* tick off the Waiting timers it does not free.  After a reset the steps that
\* bring the tick counter to less than MAX_EPISODE_TIME report not done.
C26_DoneFlags ==
    [][ returned' = "step" =>
        /\ \A a \in Agents : dones'.agents[a] = dones'.all
        /\ returned = "step" /\ dones.all =>
               /\ dones'.all
               /\ episode_time' = episode_time + 1
               /\ \A a \in Agents :
                      agent_positions'[a] = VecAdd(agent_positions[a],
                                                   agent_bodies'[a].linearVelocity)
               /\ \A p \in PickupPoints :
                      pickup_point_targets[p] > -1 /\ p \notin locals'.regenerated
                          /\ pickup_point_targets'[p] > -1
                          => pickup_point_timers'[p] = pickup_point_timers[p] - 1
        /\ returned = "reset" => episode_time = 0
        /\ episode_time' <= MAX_EPISODE_TIME - 1 => ~ dones'.all ]_vars

\* a step after the episode ended: it reports done again, and it has claimed
\* or delivered or regenerated
C26_Witness ==
    /\ returned = "step"
    /\ episode_time > MAX_EPISODE_TIME
    /\ dones.all /\ \A a \in Agents : dones.agents[a]
    /\ \/ locals.regenerated # {}
       \/ \E a \in Agents : locals.mask[a] \/ locals.delivered[a]

\* C27: a velocity command is applied in the tick it is given and not kept
\* for later ticks.  Every step whose action_dict has no entry for an agent
\* leaves that agent where it was, whatever velocity an earlier step gave it.
C27_VelocityNotStored ==
    [][ \A a \in Agents :
            ( \E keys \in SUBSET (Agents \ {a}) :
                  \E action_dict \in [keys -> Vels] : StepOn(action_dict, Locs) )
                => agent_positions'[a] = agent_positions[a] ]_vars

\* C28: the collision count Warehouse.step computes for an agent is the number
\* of other agents at a distance strictly below
\* 2 * AGENT_RADIUS + AGENT_COLLISION_EPSILON from it after the tick's physics.
\* The agent itself is not counted, the count is never negative and has no
\* cap, and an agent counts another exactly when the other counts it.
C28_CollisionCount ==
    warehouse_returned.call = "step" =>
        LET counts == warehouse_returned.locals.agent_eachother_collision_counts
            threshold == 2 * W_AGENT_RADIUS + AGENT_COLLISION_EPSILON
            near(a) == { b \in W_Agents \ {a} :
                           Dist2(warehouse.agent_positions[a], warehouse.agent_positions[b])
                               < threshold * threshold }
        IN  /\ \A a \in W_Agents : counts[a] = Cardinality(near(a))
            /\ \A a \in W_Agents : counts[a] >= 0
            /\ \A a, b \in W_Agents : b \in near(a) <=> a \in near(b)

\* after a tick two agents are 0.6 m apart, less than the 0.65 m of the
\* threshold and not overlapping: each counts one collision, a third agent none
C28_Witness ==
    /\ warehouse_returned.call = "step"
    /\ \E a, b, c \in W_Agents :
           /\ a # b
           /\ Dist2(warehouse.agent_positions[a], warehouse.agent_positions[b])
                  = (2 * W_AGENT_RADIUS) * (2 * W_AGENT_RADIUS)
           /\ warehouse_returned.locals.agent_eachother_collision_counts[a] = 1
           /\ warehouse_returned.locals.agent_eachother_collision_counts[b] = 1
           /\ warehouse_returned.locals.agent_eachother_collision_counts[c] = 0

\* C29: in Warehouse the availability of an agent follows from what it
\* carries.  At the end of every step after reset an agent's availability is 0
\* exactly when some served pickup point has that agent as its picker, also
\* when several agents were in pickup range of one Waiting point in the tick
\* and when the expiry of the served rows goes over rows whose picker is -1.
C29_AvailabilityDerived ==
    warehouse_returned.call = "step" /\ warehouse.agent_bodies # << >> =>
        \A a \in W_Agents :
            warehouse.agent_availabilities[a] = 0
                <=> \E p \in W_PickupPoints :
                        /\ warehouse.served_pickup_point_target_idxs[p] > -1
                        /\ warehouse.served_pickup_point_picker_agent_idxs[p] = a

\* C30: after every compute_action of a WarehouseGridSolver that has at least
\* as many requests as agents, no two agents hold the same pickup target,
\* every agent the observations show as available holds a pickup target in
\* 0 .. num_requests - 1, every agent they show as unavailable holds -1, and
\* the returned action_dict has an action for every agent id.
C30_SolverTargets ==
    instance.returned = "compute_action" /\ instance.num_requests >= instance.num_agents =>
        LET ids == 0 .. instance.num_agents - 1
            targets == instance.agent_pickup_targets
        IN  /\ \A a, b \in ids : a # b /\ targets[a] # -1 => targets[a] # targets[b]
            /\ \A a \in ids :
                   IF instance.observations[a].self_availability[0] = 0
                   THEN targets[a] = -1
                   ELSE targets[a] \in 0 .. instance.num_requests - 1
            /\ DOMAIN instance.action_dict = ids
            /\ \A a \in ids : instance.action_dict[a] \in 0 .. 8

\* an agent took request 0 again while a higher request stayed with the agent
\* that holds it, a third agent being unavailable
C30_Witness ==
    /\ instance.returned = "compute_action"
    /\ instance.num_requests >= instance.num_agents
    /\ \E a, b, c \in 0 .. instance.num_agents - 1 :
           /\ a < b
           /\ instance.agent_pickup_targets[a] > instance.agent_pickup_targets[b]
           /\ instance.agent_pickup_targets[b] = 0
           /\ instance.agent_pickup_targets[c] = -1

\* C31: after reset and after every step that returns, the two pickup-point
\* arrays agree: a point has target -1 exactly when it has timer -1, and the
\* timer of every Waiting point is in 1 .. MAX_PICKUP_WAIT_TIME, never 0 and
\* never negative.
C31_TargetsAndTimersAgree ==
    returned \in { "reset", "step" } =>
        \A p \in PickupPoints :
            /\ pickup_point_targets[p] = -1 <=> pickup_point_timers[p] = -1
            /\ pickup_point_targets[p] > -1
                   => pickup_point_timers[p] \in 1 .. MAX_PICKUP_WAIT_TIME

\* a tick that left one request with its last tick to wait, regenerated
\* another with the full timer and left a point Inactive
C31_Witness ==
    /\ returned = "step"
    /\ \E p, q, r \in PickupPoints :
           /\ pickup_point_targets[p] > -1 /\ pickup_point_timers[p] = 1
           /\ q \in locals.regenerated /\ pickup_point_timers[q] = MAX_PICKUP_WAIT_TIME
           /\ pickup_point_targets[r] = -1 /\ pickup_point_timers[r] = -1

\* C32: for every agent, at the end of every tick of an episode, the
\* deliveries rewarded since reset are at most the claims and the claims at
\* most one more.  The agent is carrying exactly when it has one claim more
\* than deliveries, what it carries is the target the claimed point had, and
\* a tick that rewards a delivery leaves the agent within the delivery
\* tolerance of that target's position.
C32_ClaimsAndDeliveries ==
    returned \in { "reset", "step" } =>
        \A a \in Agents :
            /\ instance.deliveries[a] <= instance.claims[a]
            /\ instance.claims[a] <= instance.deliveries[a] + 1
            /\ agent_delivery_targets[a] > -1
                   <=> instance.claims[a] = instance.deliveries[a] + 1
            /\ agent_delivery_targets[a] > -1
                   => agent_delivery_targets[a] = instance.claimed_target[a]
            /\ returned = "step" /\ locals.delivered[a]
                   => /\ rewards[a] >= DELIVERY_REWARD
                      /\ instance.claimed_target[a] \in DeliveryPoints
                      /\ Within(delivery_point_positions[instance.claimed_target[a]],
                                agent_positions[a], DELIVERY_POSITION_TOLERANCE)

\* an agent that has claimed, delivered and claimed again in one episode, and
\* carries, while the other agent carries its first claim
C32_Witness ==
    /\ returned = "step"
    /\ \E a, b \in Agents :
           /\ instance.claims[a] = 2 /\ instance.deliveries[a] = 1
           /\ agent_delivery_targets[a] > -1
           /\ instance.claims[b] = 1 /\ instance.deliveries[b] = 0
           /\ agent_delivery_targets[b] > -1

\* C33: every reward step returns to an agent lies within reward_range, and no
\* agent is paid the pickup reward and the delivery reward in one tick: no
\* pickup point is nearer to a delivery point of the layout than the two
\* tolerances together, so no position is within both.
C33_RewardInRange ==
    returned = "step" =>
        /\ \A a \in Agents :
               /\ rewards[a] >= reward_range[1]
               /\ rewards[a] <= reward_range[2]
               /\ ~ ( locals.mask[a] /\ locals.delivered[a] )
        /\ \A p \in PickupPoints, d \in SourceDeliveryPoints :
               ~ Within(pickup_point_positions[p], DeliveryPointPositionOf(d),
                        PICKUP_POSITION_TOLERANCE + DELIVERY_POSITION_TOLERANCE)

\* the second tick of an episode pays an agent for a delivery and for no
\* pickup: it claimed in the first tick and stands on its delivery point
C33_Witness ==
    /\ returned = "step"
    /\ episode_time = 2
    /\ \E a \in Agents :
           /\ locals.delivered[a] /\ ~ locals.mask[a]
           /\ rewards[a] = DELIVERY_REWARD
           /\ agent_positions[a] \in { DeliveryPointPositionOf(d) : d \in DeliveryPoints }

\* C34: reset destroys the entities of the episode before.  After any number
\* of resets of one environment the world holds exactly NUM_AGENTS agent
\* bodies and exactly four border bodies, and so no body of an earlier episode
\* overlaps a new agent.
C34_ResetDestroysEntities ==
    returned = "reset" =>
        LET bodies == WorldBodies
            dynamic == { k \in DOMAIN bodies : bodies[k].type = "dynamic" }
            static == { k \in DOMAIN bodies : bodies[k].type = "static" }
        IN  /\ Cardinality(dynamic) = NUM_AGENTS
            /\ Cardinality(static) = Len(BorderBodies)
            /\ \A k \in DOMAIN instance.stale : \A a \in Agents :
                   instance.stale[k].type = "dynamic"
                       => Dist2(instance.stale[k].position, agent_bodies[a].position)
                              >= (2 * AGENT_RADIUS) * (2 * AGENT_RADIUS)


\* C35: an observation returned at a tick is a snapshot.  Every field of an
\* observation the caller kept, self_position included, reads after any
\* later call of step as it read when it was returned.
C35_ObservationSnapshot ==
    [][ returned' = "step" /\ instance.held # << >> /\ instance'.held = instance.held
            => HeldNow' = instance.held ]_vars

====
